---- MODULE Spec2Model ----
(***************************************************************************)
(* A model of the Clovis compiler: the type lattice, the scoped symbol     *)
(* table of the semantic checker, the semantic rules of the AST nodes, the *)
(* recursive-descent parser, the code emitter and the machine that runs    *)
(* the emitted code, and the driver that chains them.                      *)
(*                                                                         *)
(* Five specifications share the variables:                                *)
(*   SpecChecker  the symbol table under the calls the AST nodes make      *)
(*   Spec         the driver: semantic pass, code generation, and the run  *)
(*                of the emitted program                                   *)
(*   SpecParse    the parser on a token sequence                           *)
(*   SpecTypes    one call of a method of a semantics.Type                 *)
(*   SpecLex      the lexer on an input string                             *)
(***************************************************************************)
EXTENDS Integers, Sequences, FiniteSets, TLC

VARIABLES
    \* semantics.SemanticChecker
    Errors, symbolTable, blockIndexTable, nextAddr,
    \* history of the checker (not program state): per-symbol scope and
    \* declaration order, the open scopes, the last call and the call count
    symMeta, frames, last, calls, decls,
    \* parser.Parser: tokens, idx, Errors (ParserErrors here) and Stmts; where
    \* Parse is (pstate), what it returned (ret), and the count of syntax
    \* failures raised so far (failures, history)
    tokens, idx, ParserErrors, Stmts, pstate, ret, failures,
    \* main: the loop index over parser.Stmts (stmtIdx), errOccured, the phase
    \* (pc), the exit status of the compiler (exitCode), what each top-level
    \* Semantics call returned (verdicts, history), and the value a panic of
    \* code generation was raised with (panicMsg)
    stmtIdx, errOccured, pc, exitCode, verdicts, panicMsg,
    \* codegen.Emitter
    Code, LabelCount,
    \* the machine running the emitted program: instruction pointer,
    \* registers, the operands of the last cmp, the stack memory written so
    \* far, and how the program ended; the pushes not yet popped, each with
    \* the value pushed and the rsp before it (pushes, history)
    ip, rsp, rbp, rax, rbx, rdi, flags, mem, status, pushes,
    \* semantics.Type: the last method call on a type and what it returned
    typeCall,
    \* lexer.Lexer (its fields), where Lex is (lexState) and what it returned
    \* (lexRet)
    lexer, lexState, lexRet

checkerVars == <<Errors, symbolTable, blockIndexTable, nextAddr>>
historyVars == <<symMeta, frames, last, calls, decls>>
parserVars == <<tokens, idx, ParserErrors, pstate, ret, failures>>
driverVars == <<stmtIdx, errOccured, pc, exitCode, verdicts, panicMsg>>
emitterVars == <<Code, LabelCount>>
machineVars == <<ip, rsp, rbp, rax, rbx, rdi, flags, mem, status, pushes>>
typeVars == <<typeCall>>
lexVars == <<lexer, lexState, lexRet>>
vars == <<checkerVars, historyVars, parserVars, Stmts, driverVars, emitterVars, machineVars,
          typeVars, lexVars>>

(***************************************************************************)
(* Bounds of the model.                                                    *)
(***************************************************************************)
\* number of SemanticChecker calls in one behaviour of SpecChecker
MaxCalls == 5

\* number of top-level statements of a block-structured program of Spec
MaxStmts == 3
\* number of tokens before the EOF of a token sequence of SpecParse
MaxTokens == 4

Idents == {"x", "y"}

(***************************************************************************)
(* semantics/types.go: the type lattice.                                   *)
(***************************************************************************)
Undefined == [k |-> "UNDEFINED"]
UintLiteral == [k |-> "UINT_LIT"]
Uint64 == [k |-> "UINT64"]
Uint32 == [k |-> "UINT32"]
Uint16 == [k |-> "UINT16"]
Uint8 == [k |-> "UINT8"]
Bool == [k |-> "BOOL"]
Ptr(t) == [k |-> "PTR", ValueType |-> t]
Array(base, length) == [k |-> "ARRAY", Base |-> base, Length |-> length]

\* Type.TypeID(): the id string, kept as the sequence of its pieces
RECURSIVE TypeID(_)
TypeID(t) ==
    CASE t.k = "PTR" -> TypeID(t.ValueType) \o <<"_PTR">>
      [] t.k = "ARRAY" -> TypeID(t.Base) \o <<"_ARRAY(", ToString(t.Length), ")">>
      [] OTHER -> <<t.k>>

\* Type.Size()
RECURSIVE Size(_)
Size(t) ==
    CASE t.k = "UNDEFINED" -> 8
      [] t.k = "UINT_LIT" -> 8
      [] t.k = "UINT64" -> 8
      [] t.k = "UINT32" -> 4
      [] t.k = "UINT16" -> 2
      [] t.k = "UINT8" -> 1
      [] t.k = "BOOL" -> 1
      [] t.k = "PTR" -> 8
      [] t.k = "ARRAY" -> t.Length * Size(t.Base)

\* the types SpecChecker declares symbols with
DeclTypes == {Uint64, Uint8, Array(Uint16, 0), Array(Uint16, 2)}

\* the type field of a node the parser built without one (a nil interface)
NilType == [k |-> "nil"]

\* semantics.IsNumber
IsNumber(t) == t.k \in {"UINT64", "UINT32", "UINT16", "UINT8", "UINT_LIT"}

ArithOps == {"+", "-", "*", "/", "="}
CmpOps == {"==", "<", ">", "<=", ">=", "!="}

No == [ok |-> FALSE, type |-> Undefined]
Yes(t) == [ok |-> TRUE, type |-> t]

\* Type.CanUseOperator where a literal on the left keeps the literal type
CanUseOperatorKeepingLiteral(t, op, operand) ==
    CASE t.k = "UINT_LIT" ->
             IF ~IsNumber(operand) THEN No
             ELSE IF op \in ArithOps THEN Yes(UintLiteral)
             ELSE IF op \in CmpOps THEN Yes(Bool)
             ELSE No
      [] t.k \in {"UINT64", "UINT32", "UINT16", "UINT8"} ->
             IF operand.k # t.k /\ operand.k # "UINT_LIT" THEN No
             ELSE IF op \in ArithOps THEN Yes(t)
             ELSE IF op \in CmpOps THEN Yes(Bool)
             ELSE No
      [] t.k = "BOOL" ->
             IF operand.k # "BOOL" THEN No
             ELSE IF op \in CmpOps \cup {"="} THEN Yes(Bool)
             ELSE No
      [] t.k = "PTR" ->
             IF TypeID(t) # TypeID(operand) THEN No
             ELSE IF op = "=" THEN Yes(t)
             ELSE No
      [] OTHER -> No

\* Type.CanUseOperator(op, operand) of each variant
CanUseOperator(t, op, operand) ==
    CASE t.k = "UINT_LIT" ->
             IF ~IsNumber(operand) THEN No
             ELSE IF op \in ArithOps THEN Yes(operand)
             ELSE IF op \in CmpOps THEN Yes(Bool)
             ELSE No
      [] t.k \in {"UINT64", "UINT32", "UINT16", "UINT8"} ->
             IF operand.k # t.k /\ operand.k # "UINT_LIT" THEN No
             ELSE IF op \in ArithOps THEN Yes(t)
             ELSE IF op \in CmpOps THEN Yes(Bool)
             ELSE No
      [] t.k = "BOOL" ->
             IF operand.k # "BOOL" THEN No
             ELSE IF op \in CmpOps \cup {"="} THEN Yes(Bool)
             ELSE No
      [] t.k = "PTR" ->
             IF TypeID(t) # TypeID(operand) THEN No
             ELSE IF op = "=" THEN Yes(t)
             ELSE No
      [] OTHER -> No

RECURSIVE Equals(_, _)
\* Type.Equals(other) of each variant
Equals(t, other) ==
    CASE t.k = "UINT_LIT" -> TypeID(other) \in {<<"UINT_LIT">>, <<"UINT64">>}
      [] t.k \in {"UINT64", "UINT32", "UINT16", "UINT8"} ->
             TypeID(other) \in {<<t.k>>, <<"UINT_LIT">>}
      [] t.k = "BOOL" -> TypeID(other) = <<"BOOL">>
      [] t.k = "PTR" -> TypeID(t) = TypeID(other)
      [] t.k = "ARRAY" ->
             \/ TypeID(t) = TypeID(other)
             \/ other.k = "ARRAY" /\ Equals(t.Base, other.Base)
      [] OTHER -> FALSE

\* Type.CanUseUnaryOperator where '*' on a pointer gives the pointer back
CanUseUnaryOperatorKeepingPtr(t, op) ==
    CASE t.k \in {"UINT64", "UINT32", "UINT16", "UINT8", "BOOL"} ->
             IF op = "&" THEN Yes(Ptr(t)) ELSE No
      [] t.k = "PTR" ->
             IF op = "*" THEN Yes(t)
             ELSE IF op = "&" THEN Yes(Ptr(t))
             ELSE No
      [] OTHER -> No

\* Type.CanUseUnaryOperator(op) of each variant
CanUseUnaryOperator(t, op) ==
    CASE t.k \in {"UINT64", "UINT32", "UINT16", "UINT8", "BOOL"} ->
             IF op = "&" THEN Yes(Ptr(t)) ELSE No
      [] t.k = "PTR" ->
             IF op = "*" THEN Yes(t.ValueType)
             ELSE IF op = "&" THEN Yes(Ptr(t))
             ELSE No
      [] OTHER -> No

(***************************************************************************)
(* utils.Stack and semantics.SemanticChecker.                              *)
(***************************************************************************)
Max(a, b) == IF a >= b THEN a ELSE b
Min(a, b) == IF a <= b THEN a ELSE b

RECURSIVE SumSizes(_, _, _)
\* size += symbol.Size over table[from..to]
SumSizes(table, from, to) ==
    IF from > to THEN 0 ELSE table[to].Size + SumSizes(table, from, to - 1)

\* a scan of the whole table, whatever the scope
TopBlockHasSymbolAnyScope(table, blocks, ident) ==
    \E i \in 1..Len(table) : table[i].Ident = ident

\* SemanticChecker.TopBlockHasSymbol: indices topBlockIndex..len-1 (0-based)
TopBlockHasSymbol(table, blocks, ident) ==
    IF Len(blocks) = 0
    THEN FALSE
    ELSE LET topBlockIndex == blocks[Len(blocks)]
         IN  \E i \in (topBlockIndex + 1)..Len(table) : table[i].Ident = ident

RedeclarationError(ident) == [msg |-> "Redeclaration of symbol", ident |-> ident]
UndeclaredError(ident) == [msg |-> "Undeclared symbol", ident |-> ident]

\* SemanticChecker.PushSymbol
PushSymbol(table, blocks, addr, errs, ident, symbolType) ==
    IF TopBlockHasSymbol(table, blocks, ident)
    THEN [err |-> TRUE, table |-> table, nextAddr |-> addr,
          Errors |-> Append(errs, RedeclarationError(ident))]
    ELSE LET symbolSize == Size(symbolType)
             symbol == [Ident |-> ident, Type |-> symbolType,
                        Offset |-> addr + symbolSize, Size |-> symbolSize]
         IN  [err |-> FALSE, table |-> Append(table, symbol),
              nextAddr |-> addr + symbolSize, Errors |-> errs]

\* SemanticChecker.PushBlock
PushBlock(table, blocks) == Append(blocks, Len(table))

\* PopBlock of the earlier revision, whose loop starts from the length of
\* the block-index stack instead of the length of the symbol table
PopBlockIndexLen(table, blocks) ==
    IF Len(blocks) = 0
    THEN [size |-> 0, table |-> table, blocks |-> blocks]
    ELSE LET topBlockIndex == blocks[Len(blocks)]
             rest == SubSeq(blocks, 1, Len(blocks) - 1)
             n == Min(Max(0, Len(rest) - topBlockIndex), Len(table))
         IN  [size |-> SumSizes(table, Len(table) - n + 1, Len(table)),
              table |-> SubSeq(table, 1, Len(table) - n),
              blocks |-> rest]

\* SemanticChecker.PopBlock: pops the symbols at indices >= topBlockIndex
PopBlock(table, blocks) ==
    IF Len(blocks) = 0
    THEN [size |-> 0, table |-> table, blocks |-> blocks]
    ELSE LET topBlockIndex == blocks[Len(blocks)]
             n == Max(0, Len(table) - topBlockIndex)
         IN  [size |-> SumSizes(table, Len(table) - n + 1, Len(table)),
              table |-> SubSeq(table, 1, Len(table) - n),
              blocks |-> SubSeq(blocks, 1, Len(blocks) - 1)]

NoSymbol == [Ident |-> "", Type |-> Undefined, Offset |-> 0, Size |-> 0]

\* a scan from the bottom of the table: the first declaration wins
GetSymbolBottomUp(table, errs, ident) ==
    LET hits == {i \in 1..Len(table) : table[i].Ident = ident}
    IN  IF hits # {}
        THEN LET i == CHOOSE h \in hits : \A g \in hits : h <= g
             IN  [found |-> TRUE, index |-> i, symbol |-> table[i], Errors |-> errs]
        ELSE [found |-> FALSE, index |-> 0, symbol |-> NoSymbol,
              Errors |-> Append(errs, UndeclaredError(ident))]

\* SemanticChecker.GetSymbol: the scan runs from the top of the table down
GetSymbol(table, errs, ident) ==
    LET hits == {i \in 1..Len(table) : table[i].Ident = ident}
    IN  IF hits # {}
        THEN LET i == CHOOSE h \in hits : \A g \in hits : h >= g
             IN  [found |-> TRUE, index |-> i, symbol |-> table[i], Errors |-> errs]
        ELSE [found |-> FALSE, index |-> 0, symbol |-> NoSymbol,
              Errors |-> Append(errs, UndeclaredError(ident))]

(***************************************************************************)
(* The AST nodes (as the parser builds them) and their Semantics methods.  *)
(* A Semantics method changes its node in place, so each operator returns  *)
(* the node as the method leaves it, also when it returns an error.        *)
(*   st = "ok"     the method returned nil                                 *)
(*   st = "err"    the method returned an error                            *)
(*   st = "crash"  the method never returns (unbounded recursion)          *)
(***************************************************************************)
\* parsePrimary: a literal gets its type from the token kind and holds the
\* lexeme
UintLit(v) == [kind |-> "Literal", Type |-> UintLiteral, Value |-> v]
BoolLit(v) == [kind |-> "Literal", Type |-> Bool, Value |-> v]
\* parsePrimary: an identifier starts Undefined
IdentExpr(id) == [kind |-> "Ident", Type |-> Undefined, Ident |-> id, Symbol |-> NoSymbol]
\* parseGroupExpr
GroupExpr(e) == [kind |-> "Group", Type |-> Undefined, Expr |-> e]
\* parseEquality .. parseFactor
BinaryExpr(l, op, r) == [kind |-> "Binary", Type |-> Undefined, Left |-> l, Op |-> op, Right |-> r]
\* parsePrefix: '!' and '-' build a PrefixExpression that starts Undefined
PrefixExpr(op, r) ==
    [kind |-> "Prefix", Type |-> Undefined, Op |-> op, Right |-> r, Addressable |-> FALSE]
\* parsePrefix: '*' and '&' build nodes whose Type field is left unset
DerefExpr(r) == [kind |-> "Deref", Type |-> NilType, Right |-> r]
ReferenceExpr(r) == [kind |-> "Reference", Type |-> NilType, Right |-> r]
\* utils.Optional without a value
NoExpr == [kind |-> "None"]

VarDeclStmt(t, id, value) ==
    [kind |-> "VarDecl", VarType |-> t, Ident |-> id, Value |-> value, Symbol |-> NoSymbol]
VarDefinitionStmt(l, r) == [kind |-> "VarDefinition", Left |-> l, Right |-> r]
AssertStmt(e) == [kind |-> "Assert", Expr |-> e]
ExpressionStmt(e) == [kind |-> "ExprStmt", Expr |-> e]

SemanticError(msg) == [msg |-> msg, ident |-> ""]

\* Expression.IsAddressable; GroupExpression.IsAddressable calls itself
IsAddressable(e) ==
    CASE e.kind \in {"Ident", "Deref", "Reference"} -> "true"
      [] e.kind = "Prefix" -> IF e.Addressable THEN "true" ELSE "false"
      [] e.kind = "Group" -> "never returns"
      [] OTHER -> "false"

\* the type assertion stmt.Left.(AddressableExpression): the node types
\* that have an EmitAddressCode method
ImplementsAddressable(e) == e.kind \in {"Ident", "Deref", "Reference", "Group"}

\* PrefixExpression.Semantics: returns nil and touches nothing
PrefixSemantics(table, errs, e) == [st |-> "ok", node |-> e, Errors |-> errs]

RECURSIVE ExprSemantics(_, _, _)
\* Expression.Semantics of each node type
ExprSemantics(table, errs, e) ==
    CASE e.kind = "Literal" -> [st |-> "ok", node |-> e, Errors |-> errs]
      [] e.kind = "Ident" ->
             LET g == GetSymbol(table, errs, e.Ident)
             IN  IF ~g.found
                 THEN [st |-> "err", node |-> e, Errors |-> g.Errors]
                 ELSE [st |-> "ok",
                       node |-> [e EXCEPT !.Type = g.symbol.Type, !.Symbol = g.symbol],
                       Errors |-> g.Errors]
      [] e.kind = "Group" ->
             LET r == ExprSemantics(table, errs, e.Expr)
             IN  IF r.st # "ok"
                 THEN [st |-> r.st, node |-> [e EXCEPT !.Expr = r.node], Errors |-> r.Errors]
                 ELSE [st |-> "ok",
                       node |-> [e EXCEPT !.Expr = r.node, !.Type = r.node.Type],
                       Errors |-> r.Errors]
      [] e.kind = "Binary" ->
             LET l == ExprSemantics(table, errs, e.Left)
             IN  IF l.st # "ok"
                 THEN [st |-> l.st, node |-> [e EXCEPT !.Left = l.node], Errors |-> l.Errors]
                 ELSE
                 LET r == ExprSemantics(table, l.Errors, e.Right)
                     n == [e EXCEPT !.Left = l.node, !.Right = r.node]
                 IN  IF r.st # "ok"
                     THEN [st |-> r.st, node |-> n, Errors |-> r.Errors]
                     ELSE
                     LET c == CanUseOperator(l.node.Type, e.Op, r.node.Type)
                     IN  IF ~c.ok
                         THEN [st |-> "err", node |-> n,
                               Errors |-> Append(r.Errors,
                                                 SemanticError("Cannot use operator"))]
                         ELSE [st |-> "ok", node |-> [n EXCEPT !.Type = c.type],
                               Errors |-> r.Errors]
      [] e.kind = "Prefix" -> PrefixSemantics(table, errs, e)
      [] e.kind = "Deref" ->
             LET r == ExprSemantics(table, errs, e.Right)
                 n == [e EXCEPT !.Right = r.node]
             IN  IF r.st # "ok"
                 THEN [st |-> r.st, node |-> n, Errors |-> r.Errors]
                 ELSE IF r.node.Type.k # "PTR"
                 THEN [st |-> "err", node |-> n,
                       Errors |-> Append(r.Errors,
                                         SemanticError("'*' dereference operator expected a PTR"))]
                 ELSE [st |-> "ok", node |-> [n EXCEPT !.Type = r.node.Type.ValueType],
                       Errors |-> r.Errors]
      [] e.kind = "Reference" ->
             LET r == ExprSemantics(table, errs, e.Right)
                 n == [e EXCEPT !.Right = r.node]
             IN  IF r.st # "ok"
                 THEN [st |-> r.st, node |-> n, Errors |-> r.Errors]
                 ELSE IF IsAddressable(r.node) = "never returns"
                 THEN [st |-> "crash", node |-> n, Errors |-> r.Errors]
                 ELSE IF IsAddressable(r.node) = "false"
                 THEN [st |-> "err", node |-> n,
                       Errors |-> Append(r.Errors,
                                         SemanticError("Expected an addressable expression"))]
                 ELSE [st |-> "ok", node |-> [n EXCEPT !.Type = Ptr(r.node.Type)],
                       Errors |-> r.Errors]

\* what a statement's Semantics leaves: its verdict, the node, the checker
Outcome(st, node, table, addr, errs) ==
    [st |-> st, node |-> node, table |-> table, nextAddr |-> addr, Errors |-> errs]

\* VarDeclStmt.Semantics without the rule that any two numbers match
VarDeclSemanticsExactType(table, blocks, addr, errs, stmt) ==
    LET v == IF stmt.Value.kind = "None"
             THEN [st |-> "ok", node |-> NoExpr, Errors |-> errs]
             ELSE ExprSemantics(table, errs, stmt.Value)
        n == [stmt EXCEPT !.Value = v.node]
    IN  IF v.st # "ok"
        THEN Outcome(v.st, n, table, addr, v.Errors)
        ELSE IF /\ stmt.Value.kind # "None"
                /\ ~(TypeID(stmt.VarType) = TypeID(v.node.Type))
        THEN Outcome("err", n, table, addr,
                     Append(v.Errors, SemanticError("Declared type and initialized value type do not match")))
        ELSE
        LET r == PushSymbol(table, blocks, addr, v.Errors, stmt.Ident, stmt.VarType)
        IN  IF r.err
            THEN Outcome("err", n, r.table, r.nextAddr, r.Errors)
            ELSE Outcome("ok", [n EXCEPT !.Symbol = r.table[Len(r.table)]],
                         r.table, r.nextAddr, r.Errors)

\* VarDeclStmt.Semantics
VarDeclSemantics(table, blocks, addr, errs, stmt) ==
    LET v == IF stmt.Value.kind = "None"
             THEN [st |-> "ok", node |-> NoExpr, Errors |-> errs]
             ELSE ExprSemantics(table, errs, stmt.Value)
        n == [stmt EXCEPT !.Value = v.node]
    IN  IF v.st # "ok"
        THEN Outcome(v.st, n, table, addr, v.Errors)
        ELSE IF /\ stmt.Value.kind # "None"
                /\ ~(IsNumber(stmt.VarType) /\ IsNumber(v.node.Type))
                /\ ~(TypeID(stmt.VarType) = TypeID(v.node.Type))
        THEN Outcome("err", n, table, addr,
                     Append(v.Errors, SemanticError("Declared type and initialized value type do not match")))
        ELSE
        LET r == PushSymbol(table, blocks, addr, v.Errors, stmt.Ident, stmt.VarType)
        IN  IF r.err
            THEN Outcome("err", n, r.table, r.nextAddr, r.Errors)
            ELSE Outcome("ok", [n EXCEPT !.Symbol = r.table[Len(r.table)]],
                         r.table, r.nextAddr, r.Errors)

\* VarDefinitionStmt.Semantics
VarDefinitionSemantics(table, blocks, addr, errs, stmt) ==
    LET l == ExprSemantics(table, errs, stmt.Left)
    IN  IF l.st # "ok"
        THEN Outcome(l.st, [stmt EXCEPT !.Left = l.node], table, addr, l.Errors)
        ELSE
        LET r == ExprSemantics(table, l.Errors, stmt.Right)
            n == [stmt EXCEPT !.Left = l.node, !.Right = r.node]
        IN  IF r.st # "ok"
            THEN Outcome(r.st, n, table, addr, r.Errors)
            ELSE IF ~ImplementsAddressable(l.node)
            THEN Outcome("err", n, table, addr,
                         Append(r.Errors, SemanticError("Left side of assignment only accepts addressable expressions")))
            ELSE IF ~CanUseOperator(l.node.Type, "=", r.node.Type).ok
            THEN Outcome("err", n, table, addr,
                         Append(r.Errors, SemanticError("Cannot assign type to address with type")))
            ELSE Outcome("ok", n, table, addr, r.Errors)

\* AssertStmt.Semantics
AssertSemantics(table, blocks, addr, errs, stmt) ==
    LET r == ExprSemantics(table, errs, stmt.Expr)
        n == [stmt EXCEPT !.Expr = r.node]
    IN  IF r.st # "ok"
        THEN Outcome(r.st, n, table, addr, r.Errors)
        ELSE IF TypeID(r.node.Type) # <<"BOOL">>
        THEN Outcome("err", n, table, addr,
                     Append(r.Errors, SemanticError("Assert statement expects a boolean expression")))
        ELSE Outcome("ok", n, table, addr, r.Errors)

\* ExpressionStmt.Semantics
ExpressionStmtSemantics(table, blocks, addr, errs, stmt) ==
    LET r == ExprSemantics(table, errs, stmt.Expr)
    IN  Outcome(r.st, [stmt EXCEPT !.Expr = r.node], table, addr, r.Errors)

\* parseBlockStmt, parseIfStmt; an IfStmt without else holds NoStmt
BlockStmt(stmts) == [kind |-> "Block", Statements |-> stmts, BlockSize |-> 0]
NoStmt == [kind |-> "None"]
IfStmt(cond, stmt, elseStmt) ==
    [kind |-> "If", Condition |-> cond, Stmt |-> stmt, ElseStmt |-> elseStmt]

\* a statement's outcome together with the scope-index stack it leaves
Result(o, blocks) ==
    [st |-> o.st, node |-> o.node, table |-> o.table, blocks |-> blocks,
     nextAddr |-> o.nextAddr, Errors |-> o.Errors]

RECURSIVE Semantics(_, _, _, _, _)
RECURSIVE InnerSemantics(_, _, _, _, _, _)
\* BlockStmt.Semantics, the loop: innerStmt.Semantics(s) with the returned
\* error dropped; todo are the statements still to analyse, done the analysed
InnerSemantics(table, blocks, addr, errs, todo, done) ==
    IF todo = <<>>
    THEN [st |-> "ok", node |-> done, table |-> table, blocks |-> blocks,
          nextAddr |-> addr, Errors |-> errs]
    ELSE LET r == Semantics(table, blocks, addr, errs, Head(todo))
         IN  IF r.st = "crash"
             THEN [r EXCEPT !.node = done \o <<r.node>> \o Tail(todo)]
             ELSE InnerSemantics(r.table, r.blocks, r.nextAddr, r.Errors,
                                 Tail(todo), Append(done, r.node))

\* BlockStmt.Semantics: PushBlock, the statements, PopBlock, return nil
BlockSemantics(table, blocks, addr, errs, stmt) ==
    LET r == InnerSemantics(table, PushBlock(table, blocks), addr, errs,
                            stmt.Statements, <<>>)
        pop == PopBlock(r.table, r.blocks)
    IN  IF r.st = "crash"
        THEN [r EXCEPT !.node = [stmt EXCEPT !.Statements = r.node]]
        ELSE [st |-> "ok",
              node |-> [stmt EXCEPT !.Statements = r.node, !.BlockSize = pop.size],
              table |-> pop.table, blocks |-> pop.blocks,
              nextAddr |-> r.nextAddr, Errors |-> r.Errors]

\* IfStmt.Semantics
IfSemantics(table, blocks, addr, errs, stmt) ==
    LET c == ExprSemantics(table, errs, stmt.Condition)
        n == [stmt EXCEPT !.Condition = c.node]
    IN  IF c.st # "ok"
        THEN Result(Outcome(c.st, n, table, addr, c.Errors), blocks)
        ELSE IF TypeID(c.node.Type) # <<"BOOL">>
        THEN Result(Outcome("err", n, table, addr,
                            Append(c.Errors, SemanticError("If statement condition must be of type BOOL"))),
                    blocks)
        ELSE
        LET t == Semantics(table, blocks, addr, c.Errors, stmt.Stmt)
            nt == [n EXCEPT !.Stmt = t.node]
        IN  IF t.st # "ok" \/ stmt.ElseStmt.kind = "None"
            THEN [t EXCEPT !.node = nt]
            ELSE LET f == Semantics(t.table, t.blocks, t.nextAddr, t.Errors, stmt.ElseStmt)
                 IN  [f EXCEPT !.node = [nt EXCEPT !.ElseStmt = f.node]]

\* Statement.Semantics of each node type
Semantics(table, blocks, addr, errs, stmt) ==
    CASE stmt.kind = "VarDecl" ->
             Result(VarDeclSemantics(table, blocks, addr, errs, stmt), blocks)
      [] stmt.kind = "VarDefinition" ->
             Result(VarDefinitionSemantics(table, blocks, addr, errs, stmt), blocks)
      [] stmt.kind = "Assert" ->
             Result(AssertSemantics(table, blocks, addr, errs, stmt), blocks)
      [] stmt.kind = "ExprStmt" ->
             Result(ExpressionStmtSemantics(table, blocks, addr, errs, stmt), blocks)
      [] stmt.kind = "Block" -> BlockSemantics(table, blocks, addr, errs, stmt)
      [] stmt.kind = "If" -> IfSemantics(table, blocks, addr, errs, stmt)

(***************************************************************************)
(* parser.Parser.  idx counts from 0 as in the source, so the token under  *)
(* the cursor is tokens[idx + 1].  The expression methods return           *)
(*   st = "ok"     a node, and the cursor after it                         *)
(*   st = "err"    a ParserError                                           *)
(*   st = "panic"  an index out of range on p.tokens[p.idx]                *)
(* and the statement methods also return the Errors list, which the loop   *)
(* of a block appends to, the count of syntax failures raised, and         *)
(*   st = "diverge"  the loop of a block never ends                        *)
(***************************************************************************)
Token(type, value) == [Type |-> type, Value |-> value]
\* the number a decimal lexeme denotes to strconv.Atoi and to nasm
Atoi(lexeme) ==
    CASE lexeme = "0" -> 0 [] lexeme = "1" -> 1 [] lexeme = "2" -> 2 [] lexeme = "3" -> 3
      [] lexeme = "256" -> 256
ParserError(token, msg) == [token |-> token, msg |-> msg]
\* the nil Statement that parseStatement returns for while and for
NilStmt == [kind |-> "nil"]
ArrayAccessExpr(left, index) ==
    [kind |-> "ArrayAccess", Type |-> Undefined, Left |-> left, IndexExpr |-> index]

InRange(toks, i) == i < Len(toks)
\* p.tokens[p.idx].Type
TypeAt(toks, i) == toks[i + 1].Type
\* p.matchAny
MatchAny(toks, i, types) == TypeAt(toks, i) \in types

\* Parser.getType
GetType(tokenType) ==
    CASE tokenType = "UINT_8" -> Uint8
      [] tokenType = "UINT_16" -> Uint16
      [] tokenType = "UINT_32" -> Uint32
      [] tokenType = "UINT_64" -> Uint64
      [] tokenType = "UINT_64_LIT" -> UintLiteral
      [] tokenType \in {"BOOL", "TRUE_LIT", "FALSE_LIT"} -> Bool
      [] OTHER -> Undefined

ExprOk(i, node) == [st |-> "ok", idx |-> i, node |-> node]
ExprErr(toks, i, at, msg) ==
    [st |-> "err", idx |-> i, err |-> ParserError(TypeAt(toks, at), msg)]
ExprPanic(i) == [st |-> "panic", idx |-> i]

\* the value v under the name the body gives it: v is computed once
With(v, Body(_)) == CHOOSE out \in {Body(r) : r \in {v}} : TRUE

RECURSIVE parseEquality(_, _)
RECURSIVE parsePrefix(_, _)
RECURSIVE PostfixLoop(_, _, _)
RECURSIVE FactorLoop(_, _, _)
RECURSIVE TermLoop(_, _, _)
RECURSIVE ComparisonLoop(_, _, _)

\* Parser.parseExpression
parseExpression(toks, i) == parseEquality(toks, i)

\* Parser.parseGroupExpr: the error for a missing ')' consumes a token
parseGroupExpr(toks, i) ==
    With(parseExpression(toks, i + 1), LAMBDA e :
        IF e.st # "ok" THEN e
        ELSE IF ~InRange(toks, e.idx) THEN ExprPanic(e.idx)
        ELSE IF TypeAt(toks, e.idx) # "CLOSE_PAREN"
        THEN ExprErr(toks, e.idx + 1, e.idx, "Expected ')' after group expression")
        ELSE ExprOk(e.idx + 1, GroupExpr(e.node)))

\* Parser.parseArrayAccess; Left is set by parsePostfix
parseArrayAccess(toks, i) ==
    With(parseExpression(toks, i + 1), LAMBDA e :
        IF e.st # "ok" THEN e
        ELSE IF ~InRange(toks, e.idx) THEN ExprPanic(e.idx)
        ELSE IF TypeAt(toks, e.idx) # "CLOSE_BRACKET"
        THEN ExprErr(toks, e.idx, e.idx, "Expected ']' after array access")
        ELSE ExprOk(e.idx + 1, ArrayAccessExpr(NoExpr, e.node)))

\* Parser.parsePrimary
parsePrimary(toks, i) ==
    IF ~InRange(toks, i) THEN ExprPanic(i)
    ELSE IF MatchAny(toks, i, {"UINT_64_LIT", "TRUE_LIT", "FALSE_LIT"})
    THEN ExprOk(i + 1, [kind |-> "Literal", Type |-> GetType(TypeAt(toks, i)),
                        Value |-> toks[i + 1].Value])
    ELSE IF TypeAt(toks, i) = "IDENT" THEN ExprOk(i + 1, IdentExpr(toks[i + 1].Value))
    ELSE IF TypeAt(toks, i) = "OPEN_PAREN" THEN parseGroupExpr(toks, i)
    ELSE ExprErr(toks, i, i, "Invalid expression")

\* Parser.parsePostfix, the loop over array accesses
PostfixLoop(toks, i, left) ==
    IF ~InRange(toks, i) THEN ExprPanic(i)
    ELSE IF TypeAt(toks, i) # "OPEN_BRACKET" THEN ExprOk(i, left)
    ELSE With(parseArrayAccess(toks, i), LAMBDA a :
             IF a.st # "ok" THEN a
             ELSE PostfixLoop(toks, a.idx, [a.node EXCEPT !.Left = left]))

\* Parser.parsePostfix
parsePostfix(toks, i) ==
    With(parsePrimary(toks, i), LAMBDA left :
        IF left.st # "ok" THEN left ELSE PostfixLoop(toks, left.idx, left.node))

\* Parser.parsePrefix
parsePrefix(toks, i) ==
    IF ~InRange(toks, i) THEN ExprPanic(i)
    ELSE IF MatchAny(toks, i, {"STAR", "AMPERSAND", "NOT", "MINUS"})
    THEN With(parsePrefix(toks, i + 1), LAMBDA right :
             IF right.st # "ok" THEN right
             ELSE ExprOk(right.idx,
                         CASE TypeAt(toks, i) = "STAR" -> DerefExpr(right.node)
                           [] TypeAt(toks, i) = "AMPERSAND" -> ReferenceExpr(right.node)
                           [] OTHER -> PrefixExpr(toks[i + 1].Value, right.node)))
    ELSE parsePostfix(toks, i)

\* Parser.parseFactor, the loop
FactorLoop(toks, i, left) ==
    IF ~InRange(toks, i) THEN ExprPanic(i)
    ELSE IF ~MatchAny(toks, i, {"STAR", "F_SLASH"}) THEN ExprOk(i, left)
    ELSE With(parsePrefix(toks, i + 1), LAMBDA right :
             IF right.st # "ok" THEN right
             ELSE FactorLoop(toks, right.idx,
                             BinaryExpr(left, toks[i + 1].Value, right.node)))

\* Parser.parseFactor
parseFactor(toks, i) ==
    With(parsePrefix(toks, i), LAMBDA left :
        IF left.st # "ok" THEN left ELSE FactorLoop(toks, left.idx, left.node))

\* Parser.parseTerm, the loop
TermLoop(toks, i, left) ==
    IF ~InRange(toks, i) THEN ExprPanic(i)
    ELSE IF ~MatchAny(toks, i, {"PLUS", "MINUS"}) THEN ExprOk(i, left)
    ELSE With(parseFactor(toks, i + 1), LAMBDA right :
             IF right.st # "ok" THEN right
             ELSE TermLoop(toks, right.idx,
                           BinaryExpr(left, toks[i + 1].Value, right.node)))

\* Parser.parseTerm
parseTerm(toks, i) ==
    With(parseFactor(toks, i), LAMBDA left :
        IF left.st # "ok" THEN left ELSE TermLoop(toks, left.idx, left.node))

\* Parser.parseComparison, the loop
ComparisonLoop(toks, i, left) ==
    IF ~InRange(toks, i) THEN ExprPanic(i)
    ELSE IF ~MatchAny(toks, i, {"LESS_THAN", "LESS_EQ_THAN", "GREATER_THAN",
                                "GREATER_EQ_THAN"})
    THEN ExprOk(i, left)
    ELSE With(parseTerm(toks, i + 1), LAMBDA right :
             IF right.st # "ok" THEN right
             ELSE ComparisonLoop(toks, right.idx,
                                 BinaryExpr(left, toks[i + 1].Value, right.node)))

\* Parser.parseComparison
parseComparison(toks, i) ==
    With(parseTerm(toks, i), LAMBDA left :
        IF left.st # "ok" THEN left ELSE ComparisonLoop(toks, left.idx, left.node))

\* Parser.parseEquality: one '==' or '!=' at most
parseEquality(toks, i) ==
    With(parseComparison(toks, i), LAMBDA left :
        IF left.st # "ok" THEN left
        ELSE IF ~InRange(toks, left.idx) THEN ExprPanic(left.idx)
        ELSE IF ~MatchAny(toks, left.idx, {"EQ", "NEQ"}) THEN left
        ELSE With(parseComparison(toks, left.idx + 1), LAMBDA right :
                 IF right.st # "ok" THEN right
                 ELSE ExprOk(right.idx,
                             BinaryExpr(left.node, toks[left.idx + 1].Value,
                                        right.node))))

StmtOk(i, errs, fails, node) ==
    [st |-> "ok", idx |-> i, errs |-> errs, fails |-> fails, node |-> node]
\* a syntax failure: a ParserError goes back to the caller
StmtErr(toks, i, at, errs, fails, msg) ==
    [st |-> "err", idx |-> i, errs |-> errs, fails |-> fails + 1,
     err |-> ParserError(TypeAt(toks, at), msg)]
StmtPanic(i, errs, fails) == [st |-> "panic", idx |-> i, errs |-> errs, fails |-> fails]
StmtDiverge(i, errs, fails) == [st |-> "diverge", idx |-> i, errs |-> errs, fails |-> fails]
\* the outcome of an expression, handed on by the statement that parsed it
FromExpr(e, errs, fails) ==
    IF e.st = "err"
    THEN [st |-> "err", idx |-> e.idx, errs |-> errs, fails |-> fails + 1, err |-> e.err]
    ELSE StmtPanic(e.idx, errs, fails)

RECURSIVE SynchronizeLoop(_, _)
\* Parser.synchronize, the loop: it consumes while the cursor is ON a ';'
\* or a '}'
SynchronizeLoop(toks, i) ==
    IF ~InRange(toks, i) THEN [st |-> "panic", idx |-> i]
    ELSE IF TypeAt(toks, i) # "EOF" /\ MatchAny(toks, i, {"SEMI", "CLOSE_CURLY", "EOF"})
    THEN SynchronizeLoop(toks, i + 1)
    ELSE [st |-> "ok", idx |-> i]

\* Parser.synchronize: the loop, then one more consume
synchronize(toks, i) ==
    With(SynchronizeLoop(toks, i), LAMBDA l :
        IF l.st = "panic" THEN l ELSE [st |-> "ok", idx |-> l.idx + 1])

RECURSIVE DecoratorLoop(_, _, _)
\* Parser.parseVarDecl, the loop over '*' and '[N]'; strconv.Atoi gives the
\* length, and its error is dropped
DecoratorLoop(toks, i, type) ==
    IF ~InRange(toks, i) THEN [st |-> "panic", idx |-> i]
    ELSE IF TypeAt(toks, i) = "STAR" THEN DecoratorLoop(toks, i + 1, Ptr(type))
    ELSE IF TypeAt(toks, i) = "OPEN_BRACKET"
    THEN IF ~InRange(toks, i + 1) THEN [st |-> "panic", idx |-> i + 1]
         ELSE IF TypeAt(toks, i + 1) # "UINT_64_LIT"
         THEN [st |-> "err", idx |-> i + 2, at |-> i + 1,
               msg |-> "Expected size specifier for array declaration"]
         ELSE IF ~InRange(toks, i + 2) THEN [st |-> "panic", idx |-> i + 2]
         ELSE IF TypeAt(toks, i + 2) # "CLOSE_BRACKET"
         THEN [st |-> "err", idx |-> i + 3, at |-> i + 2,
               msg |-> "Expected ']' after array declaration"]
         ELSE DecoratorLoop(toks, i + 3, Array(type, Atoi(toks[i + 2].Value)))
    ELSE [st |-> "ok", idx |-> i, type |-> type]

\* Parser.parseVarDecl, from the identifier on (the cursor j is after it)
VarDeclRest(toks, j, errs, fails, type, ident) ==
    IF ~InRange(toks, j) THEN StmtPanic(j, errs, fails)
    ELSE With(IF TypeAt(toks, j) = "ASSIGN" THEN parseExpression(toks, j + 1)
              ELSE ExprOk(j, NoExpr),
              LAMBDA right :
        IF right.st # "ok" THEN FromExpr(right, errs, fails)
        ELSE IF ~InRange(toks, right.idx) THEN StmtPanic(right.idx, errs, fails)
        ELSE IF TypeAt(toks, right.idx) # "SEMI"
        THEN StmtErr(toks, right.idx + 1, right.idx, errs, fails,
                     "Expected ';' after variable declaration")
        ELSE StmtOk(right.idx + 1, errs, fails, VarDeclStmt(type, ident, right.node)))

\* Parser.parseVarDecl: its error messages consume a token
parseVarDecl(toks, i, errs, fails) ==
    With(DecoratorLoop(toks, i + 1, GetType(TypeAt(toks, i))), LAMBDA d :
        IF d.st = "panic" THEN StmtPanic(d.idx, errs, fails)
        ELSE IF d.st = "err" THEN StmtErr(toks, d.idx, d.at, errs, fails, d.msg)
        ELSE IF TypeAt(toks, d.idx) # "IDENT"
        THEN StmtErr(toks, d.idx + 1, d.idx, errs, fails,
                     "Expected an identifer after type defintion")
        ELSE VarDeclRest(toks, d.idx + 1, errs, fails, d.type, toks[d.idx + 1].Value))

\* Parser.parseVarDefinition
parseVarDefinition(toks, i, errs, fails) ==
    With(parseExpression(toks, i), LAMBDA left :
        IF left.st # "ok" THEN FromExpr(left, errs, fails)
        ELSE IF ~InRange(toks, left.idx) THEN StmtPanic(left.idx, errs, fails)
        ELSE IF TypeAt(toks, left.idx) # "ASSIGN"
        THEN StmtErr(toks, left.idx, left.idx, errs, fails, "Expected '=' for assignment")
        ELSE With(parseExpression(toks, left.idx + 1), LAMBDA right :
            IF right.st # "ok" THEN FromExpr(right, errs, fails)
            ELSE IF ~InRange(toks, right.idx) THEN StmtPanic(right.idx, errs, fails)
            ELSE IF TypeAt(toks, right.idx) # "SEMI"
            THEN StmtErr(toks, right.idx, right.idx, errs, fails,
                         "Expected ';' at the end of statement")
            ELSE StmtOk(right.idx + 1, errs, fails,
                        VarDefinitionStmt(left.node, right.node))))

\* Parser.parseAssert: an error of the expression is wrapped in a new one,
\* made with p.peek()
parseAssert(toks, i, errs, fails) ==
    With(parseExpression(toks, i + 1), LAMBDA e :
        IF e.st = "panic" THEN StmtPanic(e.idx, errs, fails)
        ELSE IF e.st = "err" /\ ~InRange(toks, e.idx) THEN StmtPanic(e.idx, errs, fails + 1)
        ELSE IF ~InRange(toks, e.idx) THEN StmtPanic(e.idx, errs, fails)
        ELSE IF e.st = "err"
        THEN StmtErr(toks, e.idx, e.idx, errs, fails, "At assertion")
        ELSE IF TypeAt(toks, e.idx) # "SEMI"
        THEN StmtErr(toks, e.idx, e.idx, errs, fails, "Expected ';'")
        ELSE StmtOk(e.idx + 1, errs, fails, AssertStmt(e.node)))

\* Parser.parseExpressionStmt
parseExpressionStmt(toks, i, errs, fails) ==
    With(parseExpression(toks, i), LAMBDA e :
        IF e.st # "ok" THEN FromExpr(e, errs, fails)
        ELSE IF ~InRange(toks, e.idx) THEN StmtPanic(e.idx, errs, fails)
        ELSE IF TypeAt(toks, e.idx) # "SEMI"
        THEN StmtErr(toks, e.idx, e.idx, errs, fails, "Expected ';'")
        ELSE StmtOk(e.idx + 1, errs, fails, ExpressionStmt(e.node)))

RECURSIVE parseStatement(_, _, _, _)
RECURSIVE BlockLoop(_, _, _, _, _)
\* the statement loop with a failure dropped instead of appended to Errors
BlockLoopDropping(toks, i, errs, fails, stmts) ==
    IF InRange(toks, i) /\ TypeAt(toks, i) \notin {"EOF", "CLOSE_CURLY"}
    THEN With(parseStatement(toks, i, errs, fails), LAMBDA r :
             IF r.st = "err"
             THEN With(synchronize(toks, r.idx), LAMBDA sy :
                      IF sy.st = "panic"
                      THEN StmtPanic(sy.idx, r.errs, r.fails)
                      ELSE BlockLoop(toks, sy.idx, r.errs, r.fails, stmts))
             ELSE IF r.st # "ok" THEN r
             ELSE IF r.idx = i THEN StmtDiverge(i, r.errs, r.fails)
             ELSE BlockLoop(toks, r.idx, r.errs, r.fails, Append(stmts, r.node)))
    ELSE StmtOk(i, errs, fails, stmts)

\* the statement loop of Parser.parseBlockStmt: a failure is appended to
\* Errors and synchronize moves the cursor on.  A statement that parses
\* without moving the cursor (the nil of while and for) leaves the loop
\* where it was, so the loop never ends.
BlockLoop(toks, i, errs, fails, stmts) ==
    IF InRange(toks, i) /\ TypeAt(toks, i) \notin {"EOF", "CLOSE_CURLY"}
    THEN With(parseStatement(toks, i, errs, fails), LAMBDA r :
             IF r.st = "err"
             THEN With(synchronize(toks, r.idx), LAMBDA sy :
                      IF sy.st = "panic"
                      THEN StmtPanic(sy.idx, Append(r.errs, r.err), r.fails)
                      ELSE BlockLoop(toks, sy.idx, Append(r.errs, r.err), r.fails, stmts))
             ELSE IF r.st # "ok" THEN r
             ELSE IF r.idx = i THEN StmtDiverge(i, r.errs, r.fails)
             ELSE BlockLoop(toks, r.idx, r.errs, r.fails, Append(stmts, r.node)))
    ELSE StmtOk(i, errs, fails, stmts)

\* Parser.parseBlockStmt: '{', the loop, then the '}' is looked for at the
\* cursor wherever the loop left it
parseBlockStmt(toks, i, errs, fails) ==
    With(BlockLoop(toks, i + 1, errs, fails, <<>>), LAMBDA l :
        IF l.st # "ok" THEN l
        ELSE IF ~InRange(toks, l.idx) THEN StmtPanic(l.idx, l.errs, l.fails)
        ELSE IF TypeAt(toks, l.idx) # "CLOSE_CURLY"
        THEN StmtErr(toks, l.idx, l.idx, l.errs, l.fails, "Expected '}'")
        ELSE StmtOk(l.idx + 1, l.errs, l.fails, BlockStmt(l.node)))

\* Parser.parseIfStmt, from the statement after the condition on
IfRest(toks, errs, fails, c) ==
    With(parseStatement(toks, c.idx, errs, fails), LAMBDA t :
        IF t.st # "ok" THEN t
        ELSE IF ~InRange(toks, t.idx) THEN StmtPanic(t.idx, t.errs, t.fails)
        ELSE IF TypeAt(toks, t.idx) # "ELSE"
        THEN StmtOk(t.idx, t.errs, t.fails, IfStmt(c.node, t.node, NoStmt))
        ELSE With(parseStatement(toks, t.idx + 1, t.errs, t.fails), LAMBDA f :
                 IF f.st # "ok" THEN f
                 ELSE StmtOk(f.idx, f.errs, f.fails, IfStmt(c.node, t.node, f.node))))

\* Parser.parseIfStmt
parseIfStmt(toks, i, errs, fails) ==
    With(parseExpression(toks, i + 1), LAMBDA c :
        IF c.st # "ok" THEN FromExpr(c, errs, fails) ELSE IfRest(toks, errs, fails, c))

\* Parser.parseStatement; parseWhileStmt and parseForStmt are empty, and
\* after them parseStatement returns nil, nil with the cursor unmoved
parseStatement(toks, i, errs, fails) ==
    IF ~InRange(toks, i) THEN StmtPanic(i, errs, fails)
    ELSE IF MatchAny(toks, i, {"UINT_64", "UINT_32", "UINT_16", "UINT_8", "BOOL"})
    THEN parseVarDecl(toks, i, errs, fails)
    ELSE IF MatchAny(toks, i, {"STAR", "IDENT", "OPEN_PAREN"})
    THEN parseVarDefinition(toks, i, errs, fails)
    ELSE IF TypeAt(toks, i) = "OPEN_CURLY" THEN parseBlockStmt(toks, i, errs, fails)
    ELSE IF TypeAt(toks, i) = "IF" THEN parseIfStmt(toks, i, errs, fails)
    ELSE IF TypeAt(toks, i) \in {"WHILE", "FOR"} THEN StmtOk(i, errs, fails, NilStmt)
    ELSE IF TypeAt(toks, i) = "ASSERT" THEN parseAssert(toks, i, errs, fails)
    ELSE parseExpressionStmt(toks, i, errs, fails)

\* Parser.Parse, the value returned after parseProgram
ParseReturns(errs) == IF Len(errs) # 0 THEN "error" ELSE "nil"

(***************************************************************************)
(* codegen.Emitter and the EmitCode methods of the AST nodes.  The emitted *)
(* text is kept as a sequence of instructions, one per line of assembly:   *)
(* op is the line with its operand left out, arg the operand (an           *)
(* immediate, an offset from rbp or a label), width the bytes moved.       *)
(*   st = "ok"     EmitCode returned                                       *)
(*   st = "panic"  EmitCode panicked (explicit panic, or a method call on  *)
(*                 a nil Type or a nil AddressableExpression); msg is the  *)
(*                 value the panic was raised with                         *)
(***************************************************************************)
Instr(op, arg, width) == [op |-> op, arg |-> arg, width |-> width]
Emitted(code) == [st |-> "ok", code |-> code, msg |-> ""]
\* a method call on a nil interface value
NilDereference == "invalid memory address or nil pointer dereference"
Panic(code) == [st |-> "panic", code |-> code, msg |-> NilDereference]
\* ReferenceExpression.EmitAddressCode: the explicit panic
AddressOfAddress == "&&x or &(&x) is incorrect usage"
\* two pieces of code in sequence; a panic stops the emission
Then(a, b) ==
    IF a.st = "panic" THEN a
    ELSE [st |-> b.st, code |-> a.code \o b.code, msg |-> b.msg]

\* Type.Register / Type.ASMSize: the bytes an access of this type moves
AccessWidth(t) == IF t.k = "ARRAY" THEN Size(Uint64) ELSE Size(t)

\* ASMBinaryOp
ASMBinaryOp(op) ==
    CASE op = "+" -> "add" [] op = "-" -> "sub" [] op = "*" -> "mul" [] op = "/" -> "div"
      [] op = "==" -> "sete" [] op = "!=" -> "setne" [] op = "<" -> "setl"
      [] op = "<=" -> "setle" [] op = ">" -> "setg" [] op = ">=" -> "setge"
      [] OTHER -> ""

\* BinaryExpression.EmitCode: the line written for each mnemonic
BinaryLine(binOp) ==
    CASE binOp = "add" -> "add rax, rbx" [] binOp = "sub" -> "sub rax, rbx"
      [] binOp = "mul" -> "mul rbx" [] binOp = "div" -> "div rbx"
      [] binOp = "sete" -> "sete al" [] binOp = "setne" -> "setne al"
      [] binOp = "setl" -> "setl al" [] binOp = "setle" -> "setle al"
      [] binOp = "setg" -> "setg al" [] binOp = "setge" -> "setge al"
      [] OTHER -> " al"

\* LiteralExpression.EmitCode: the lexeme, with true written 1 and false 0
LiteralValue(e) ==
    IF e.Type.k = "BOOL" /\ e.Value = "true" THEN Atoi("1")
    ELSE IF e.Type.k = "BOOL" /\ e.Value = "false" THEN Atoi("0")
    ELSE Atoi(e.Value)

RECURSIVE EmitExpr(_)
RECURSIVE EmitAddressCode(_)
\* Expression.EmitCode of each node type
EmitExpr(e) ==
    CASE e.kind = "Literal" -> Emitted(<<Instr("mov rax", LiteralValue(e), 0)>>)
      [] e.kind = "Ident" ->
             Emitted(<<Instr("xor rax, rax", 0, 0),
                       Instr("mov reg, [rbp - off]", e.Symbol.Offset, AccessWidth(e.Type))>>)
      [] e.kind = "Group" -> EmitExpr(e.Expr)
      [] e.kind = "Prefix" -> Emitted(<<>>)
      [] e.kind = "Binary" ->
             LET binOp == ASMBinaryOp(e.Op)
                 tail == IF binOp \in {"add", "sub"}
                         THEN <<Instr(BinaryLine(binOp), 0, 0)>>
                         ELSE IF binOp \in {"mul", "div"}
                         THEN <<Instr(BinaryLine(binOp), 0, 0)>>
                         ELSE IF e.Type.k = "BOOL"
                         THEN <<Instr("cmp rax, rbx", 0, 0), Instr(BinaryLine(binOp), 0, 0)>>
                         ELSE <<>>
             IN  Then(EmitExpr(e.Right),
                 Then(Emitted(<<Instr("push rax", 0, 0)>>),
                 Then(EmitExpr(e.Left),
                      Emitted(<<Instr("pop rbx", 0, 0)>> \o tail))))
      [] e.kind = "Deref" ->
             IF e.Type.k = "nil" THEN Panic(<<>>)
             ELSE Then(EmitExpr(e.Right),
                       Emitted(<<Instr("mov reg, [rax]", 0, AccessWidth(e.Type))>>))
      [] e.kind = "Reference" ->
             IF e.Type.k = "nil" THEN Panic(<<>>) ELSE EmitAddressCode(e.Right)

\* AddressableExpression.EmitAddressCode; a node type without the method
\* is a nil AddressableExpression
EmitAddressCode(e) ==
    CASE e.kind = "Ident" -> Emitted(<<Instr("lea rax, [rbp - off]", e.Symbol.Offset, 0)>>)
      [] e.kind = "Deref" -> IF e.Type.k = "nil" THEN Panic(<<>>) ELSE EmitExpr(e.Right)
      [] e.kind = "Reference" -> [Panic(<<>>) EXCEPT !.msg = AddressOfAddress]
      [] e.kind = "Group" ->
             IF ImplementsAddressable(e.Expr) THEN EmitAddressCode(e.Expr) ELSE Emitted(<<>>)
      [] OTHER -> Panic(<<>>)

\* VarDeclStmt.EmitCode
EmitVarDecl(stmt) ==
    Then(Emitted(<<Instr("sub rsp", Size(stmt.VarType), 0)>>),
         IF stmt.Value.kind = "None"
         THEN Emitted(<<>>)
         ELSE Then(EmitExpr(stmt.Value),
                   Emitted(<<Instr("mov [rbp - off], reg", stmt.Symbol.Offset,
                                   AccessWidth(stmt.VarType))>>)))

\* VarDefinitionStmt.EmitCode without the pop of the address
EmitVarDefinitionWithoutPop(stmt) ==
    Then(EmitAddressCode(stmt.Left),
    Then(Emitted(<<Instr("push rax", 0, 0)>>),
    Then(EmitExpr(stmt.Right),
         IF stmt.Left.Type.k = "nil"
         THEN Panic(<<>>)
         ELSE Emitted(<<Instr("mov [rbx], reg", 0, AccessWidth(stmt.Left.Type))>>))))

\* VarDefinitionStmt.EmitCode
EmitVarDefinition(stmt) ==
    Then(EmitAddressCode(stmt.Left),
    Then(Emitted(<<Instr("push rax", 0, 0)>>),
    Then(EmitExpr(stmt.Right),
         IF stmt.Left.Type.k = "nil"
         THEN Panic(<<Instr("pop rbx", 0, 0)>>)
         ELSE Emitted(<<Instr("pop rbx", 0, 0),
                        Instr("mov [rbx], reg", 0, AccessWidth(stmt.Left.Type))>>))))

\* fmt.Sprintf("%v", n) of a count: its decimal digits
RECURSIVE Digits(_)
Digits(n) == IF n < 10 THEN <<n>> ELSE Append(Digits(n \div 10), n % 10)
\* fmt.Sprintf(".L%02v", n): the digits, padded with zeros to a width of two
LabelText(n) ==
    LET d == Digits(n)
    IN  [prefix |-> ".L", digits |-> IF Len(d) < 2 THEN <<0>> \o d ELSE d]

\* Emitter.NextLabel that formats the count without incrementing it
NextLabelReusing(count) == [count |-> count, label |-> LabelText(count + 1)]

\* Emitter.NextLabel: the incremented LabelCount and the label formatted from it
NextLabel(count) == [count |-> count + 1, label |-> LabelText(count + 1)]

\* a statement's code together with the LabelCount it leaves
Labelled(r, labels) == [st |-> r.st, code |-> r.code, msg |-> r.msg, labels |-> labels]

RECURSIVE EmitCode(_, _)
RECURSIVE EmitInner(_, _, _)
\* BlockStmt.EmitCode, the loop
EmitInner(todo, labels, code) ==
    IF todo = <<>>
    THEN [st |-> "ok", code |-> code, msg |-> "", labels |-> labels]
    ELSE LET r == EmitCode(Head(todo), labels)
         IN  IF r.st = "panic"
             THEN [r EXCEPT !.code = code \o r.code]
             ELSE EmitInner(Tail(todo), r.labels, code \o r.code)

\* AssertStmt.EmitCode with the jump taken when the expression is false
EmitAssertInverted(stmt, labels) ==
    LET endLabel == NextLabel(labels)
    IN  Labelled(Then(EmitExpr(stmt.Expr),
                      Emitted(<<Instr("cmp al, 1", 0, 0), Instr("jne", endLabel.label, 0),
                                Instr("mov rax", 60, 0), Instr("mov rdi", 1, 0),
                                Instr("syscall", 0, 0),
                                Instr("label", endLabel.label, 0)>>)),
                 endLabel.count)

\* AssertStmt.EmitCode
EmitAssert(stmt, labels) ==
    LET endLabel == NextLabel(labels)
    IN  Labelled(Then(EmitExpr(stmt.Expr),
                      Emitted(<<Instr("cmp al, 1", 0, 0), Instr("je", endLabel.label, 0),
                                Instr("mov rax", 60, 0), Instr("mov rdi", 1, 0),
                                Instr("syscall", 0, 0),
                                Instr("label", endLabel.label, 0)>>)),
                 endLabel.count)

\* IfStmt.EmitCode without the jump over the else-branch
EmitIfFallingThrough(stmt, labels) ==
    LET falseLabel == NextLabel(labels)
        c == Then(EmitExpr(stmt.Condition),
                  Emitted(<<Instr("cmp al, 1", 0, 0), Instr("jne", falseLabel.label, 0)>>))
        t == EmitCode(stmt.Stmt, falseLabel.count)
        endLabel == NextLabel(t.labels)
        mid == <<Instr("label", falseLabel.label, 0)>>
        f == IF stmt.ElseStmt.kind = "None"
             THEN [st |-> "ok", code |-> <<>>, msg |-> "", labels |-> endLabel.count]
             ELSE EmitCode(stmt.ElseStmt, endLabel.count)
    IN  IF c.st = "panic" THEN Labelled(c, labels)
        ELSE IF t.st = "panic" THEN [t EXCEPT !.code = c.code \o t.code]
        ELSE IF f.st = "panic" THEN [f EXCEPT !.code = c.code \o t.code \o mid \o f.code]
        ELSE [st |-> "ok",
              code |-> c.code \o t.code \o mid \o f.code
                       \o <<Instr("label", endLabel.label, 0)>>,
              msg |-> "", labels |-> f.labels]

\* IfStmt.EmitCode
EmitIf(stmt, labels) ==
    LET falseLabel == NextLabel(labels)
        c == Then(EmitExpr(stmt.Condition),
                  Emitted(<<Instr("cmp al, 1", 0, 0), Instr("jne", falseLabel.label, 0)>>))
        t == EmitCode(stmt.Stmt, falseLabel.count)
        endLabel == NextLabel(t.labels)
        mid == <<Instr("jmp", endLabel.label, 0), Instr("label", falseLabel.label, 0)>>
        f == IF stmt.ElseStmt.kind = "None"
             THEN [st |-> "ok", code |-> <<>>, msg |-> "", labels |-> endLabel.count]
             ELSE EmitCode(stmt.ElseStmt, endLabel.count)
    IN  IF c.st = "panic" THEN Labelled(c, labels)
        ELSE IF t.st = "panic" THEN [t EXCEPT !.code = c.code \o t.code]
        ELSE IF f.st = "panic" THEN [f EXCEPT !.code = c.code \o t.code \o mid \o f.code]
        ELSE [st |-> "ok",
              code |-> c.code \o t.code \o mid \o f.code
                       \o <<Instr("label", endLabel.label, 0)>>,
              msg |-> "", labels |-> f.labels]

\* Statement.EmitCode of each node type
EmitCode(stmt, labels) ==
    CASE stmt.kind = "VarDecl" -> Labelled(EmitVarDecl(stmt), labels)
      [] stmt.kind = "VarDefinition" -> Labelled(EmitVarDefinition(stmt), labels)
      [] stmt.kind = "ExprStmt" -> Labelled(EmitExpr(stmt.Expr), labels)
      [] stmt.kind = "Assert" -> EmitAssert(stmt, labels)
      [] stmt.kind = "If" -> EmitIf(stmt, labels)
      [] stmt.kind = "Block" ->
             LET r == EmitInner(stmt.Statements, labels, <<>>)
             IN  IF r.st = "panic" THEN r
                 ELSE [r EXCEPT !.code = @ \o <<Instr("add rsp", stmt.BlockSize, 0)>>]

\* NewEmitter: the prologue
NewEmitter == <<Instr("mov rbp, rsp", 0, 0)>>

\* Emitter.End: exit(0)
End == <<Instr("mov rax", 60, 0), Instr("mov rdi", 0, 0), Instr("syscall", 0, 0)>>

(***************************************************************************)
(* The machine that runs the emitted program.  A register holds a known    *)
(* value or an unknown one (a read of memory the program never wrote, or a *)
(* result outside the range the model tracks).  Memory is the set of       *)
(* cells written so far; a read that does not match a written cell is      *)
(* unknown.  A step yields the set of machine states the instruction can   *)
(* lead to: a branch on an unknown flag can go either way.                 *)
(***************************************************************************)
\* the stack pointer at _start
EntryRsp == 2^16
\* the 64-bit values the model tracks, each written as the number it is
\* in two's complement: v >= 0 is the value v, and v < 0 is the value
\* 2^64 + v, whose most significant bit is set
Tracked == (-(2^24))..(2^24)
Known(v) == [known |-> TRUE, v |-> v]
Unknown == [known |-> FALSE, v |-> 0]
Value(v) == IF v \in Tracked THEN Known(v) ELSE Unknown
\* push and pop move a quadword
Quad == Size(Uint64)

Write(m, addr, width, val) ==
    {c \in m : c.addr + c.width <= addr \/ addr + width <= c.addr}
        \cup {[addr |-> addr, width |-> width, val |-> val]}
Read(m, addr, width) ==
    LET hit == {c \in m : c.addr = addr /\ c.width = width}
    IN  IF hit = {} THEN Unknown ELSE (CHOOSE c \in hit : TRUE).val

\* a move into al / ax keeps the upper bytes of rax, a move into eax / rax
\* replaces the register
MoveInto(reg, width, val) ==
    IF width >= Size(Uint32) THEN val
    ELSE IF reg.known /\ val.known
    THEN Value(reg.v - (reg.v % (256^width)) + (val.v % (256^width)))
    ELSE Unknown
\* the low bytes of a register; the low four bytes of a value at the top
\* of the 64-bit range are outside the tracked range
Low(reg, width) ==
    IF width = Quad THEN reg
    ELSE IF width >= Size(Uint32) THEN (IF reg.known /\ reg.v < 0 THEN Unknown ELSE reg)
    ELSE IF reg.known THEN Known(reg.v % (256^width)) ELSE Unknown

\* setcc after cmp a, b on 64-bit operands: sete and setne test equality,
\* setl, setle, setg and setge test the signed order (SF, OF and ZF), which
\* is the order of the operands as two's complement numbers
Condition(cc, a, b) ==
    CASE cc = "sete al" -> a = b [] cc = "setne al" -> a # b
      [] cc = "setl al" -> a < b [] cc = "setle al" -> a <= b
      [] cc = "setg al" -> a > b [] cc = "setge al" -> a >= b

\* the index of the line that defines a label
LabelAt(code, label) ==
    CHOOSE j \in 1..Len(code) : code[j].op = "label" /\ code[j].arg = label

Machine ==
    [ip |-> ip, rsp |-> rsp, rbp |-> rbp, rax |-> rax, rbx |-> rbx, rdi |-> rdi,
     flags |-> flags, mem |-> mem, status |-> status]

\* the machine states one instruction leads to
Exec(m, ins, code) ==
    LET next == [m EXCEPT !.ip = @ + 1]
        op == ins.op
        flagsKnown == m.flags.a.known /\ m.flags.b.known
        jump == [m EXCEPT !.ip = LabelAt(code, ins.arg)]
    IN  CASE op = "mov rbp, rsp" -> {[next EXCEPT !.rbp = Known(m.rsp)]}
          [] op = "sub rsp" -> {[next EXCEPT !.rsp = m.rsp - ins.arg]}
          [] op = "add rsp" -> {[next EXCEPT !.rsp = m.rsp + ins.arg]}
          [] op = "mov rax" -> {[next EXCEPT !.rax = Known(ins.arg)]}
          [] op = "mov rdi" -> {[next EXCEPT !.rdi = Known(ins.arg)]}
          [] op = "xor rax, rax" -> {[next EXCEPT !.rax = Known(0)]}
          [] op = "mov reg, [rbp - off]" ->
                 {[next EXCEPT !.rax =
                       IF m.rbp.known
                       THEN MoveInto(m.rax, ins.width, Read(m.mem, m.rbp.v - ins.arg, ins.width))
                       ELSE Unknown]}
          [] op = "mov [rbp - off], reg" ->
                 {[next EXCEPT !.mem =
                       IF m.rbp.known
                       THEN Write(m.mem, m.rbp.v - ins.arg, ins.width, Low(m.rax, ins.width))
                       ELSE {}]}
          [] op = "lea rax, [rbp - off]" ->
                 {[next EXCEPT !.rax = IF m.rbp.known THEN Value(m.rbp.v - ins.arg)
                                       ELSE Unknown]}
          [] op = "push rax" ->
                 {[next EXCEPT !.rsp = m.rsp - Quad,
                               !.mem = Write(m.mem, m.rsp - Quad, Quad, m.rax)]}
          [] op = "pop rbx" ->
                 {[next EXCEPT !.rsp = m.rsp + Quad, !.rbx = Read(m.mem, m.rsp, Quad)]}
          [] op = "mov [rbx], reg" ->
                 IF m.rbx.known
                 THEN {[next EXCEPT !.mem = Write(m.mem, m.rbx.v, ins.width,
                                                  Low(m.rax, ins.width))]}
                 ELSE {[next EXCEPT !.mem = {}], [m EXCEPT !.status = "fault"]}
          [] op = "mov reg, [rax]" ->
                 IF m.rax.known
                 THEN {[next EXCEPT !.rax = MoveInto(m.rax, ins.width,
                                                     Read(m.mem, m.rax.v, ins.width))]}
                 ELSE {[next EXCEPT !.rax = Unknown], [m EXCEPT !.status = "fault"]}
          [] op = "add rax, rbx" ->
                 {[next EXCEPT !.rax = IF m.rax.known /\ m.rbx.known
                                       THEN Value(m.rax.v + m.rbx.v) ELSE Unknown]}
          [] op = "sub rax, rbx" ->
                 {[next EXCEPT !.rax = IF m.rax.known /\ m.rbx.known
                                       THEN Value(m.rax.v - m.rbx.v) ELSE Unknown]}
          [] op = "mul rbx" ->
                 {[next EXCEPT !.rax = IF m.rax.known /\ m.rbx.known
                                       THEN Value(m.rax.v * m.rbx.v) ELSE Unknown]}
          [] op = "div rbx" ->
                 IF m.rbx.known /\ m.rbx.v = 0
                 THEN {[m EXCEPT !.status = "fault"]}
                 ELSE {[next EXCEPT !.rax = Unknown], [m EXCEPT !.status = "fault"]}
          [] op = "cmp rax, rbx" -> {[next EXCEPT !.flags = [a |-> m.rax, b |-> m.rbx]]}
          [] op = "cmp al, 1" ->
                 {[next EXCEPT !.flags = [a |-> Low(m.rax, Size(Uint8)), b |-> Known(1)]]}
          [] op \in {"sete al", "setne al", "setl al", "setle al", "setg al", "setge al"} ->
                 {[next EXCEPT !.rax =
                       IF flagsKnown
                       THEN MoveInto(m.rax, Size(Uint8),
                                     Known(IF Condition(op, m.flags.a.v, m.flags.b.v)
                                           THEN 1 ELSE 0))
                       ELSE Unknown]}
          [] op = "jmp" -> {jump}
          [] op = "je" ->
                 IF flagsKnown
                 THEN {IF m.flags.a.v = m.flags.b.v THEN jump ELSE next}
                 ELSE {jump, next}
          [] op = "jne" ->
                 IF flagsKnown
                 THEN {IF m.flags.a.v # m.flags.b.v THEN jump ELSE next}
                 ELSE {jump, next}
          [] op = "label" -> {next}
          [] op = "syscall" ->
                 IF m.rax.known /\ m.rax.v = 60
                 THEN {[m EXCEPT !.status = "exited"]}
                 ELSE {[next EXCEPT !.rax = Unknown]}

(***************************************************************************)
(* The parts a specification does not exercise stay as constructed.        *)
(***************************************************************************)
NoHistory ==
    /\ symMeta = <<>>
    /\ frames = <<>>
    /\ last = [op |-> "New"]
    /\ calls = 0
    /\ decls = 0
NoParser ==
    /\ tokens = <<>>
    /\ idx = 0
    /\ ParserErrors = <<>>
    /\ pstate = "idle"
    /\ ret = "none"
    /\ failures = 0
NoDriver ==
    /\ stmtIdx = 0
    /\ errOccured = FALSE
    /\ pc = "idle"
    /\ exitCode = 0
    /\ verdicts = <<>>
    /\ panicMsg = ""
NoTypes == typeCall = [op |-> "none"]
NoLexer ==
    /\ lexer = [Tokens |-> <<>>, Errors |-> <<>>, input |-> <<>>, line |-> 0, col |-> 0,
                idx |-> 0, buffer |-> <<>>]
    /\ lexState = "idle"
    /\ lexRet = "none"
NoEmitter ==
    /\ Code = <<>>
    /\ LabelCount = 0
NoMachine ==
    /\ ip = 0
    /\ rsp = 0
    /\ rbp = Unknown
    /\ rax = Unknown
    /\ rbx = Unknown
    /\ rdi = Unknown
    /\ flags = [a |-> Unknown, b |-> Unknown]
    /\ mem = {}
    /\ status = "not started"
    /\ pushes = <<>>

(***************************************************************************)
(* SpecChecker: the SemanticChecker under the calls the AST nodes make.    *)
(* VarDeclStmt.Semantics calls PushSymbol, IdentExpression.Semantics calls *)
(* GetSymbol, BlockStmt.Semantics calls PushBlock, analyses its statements *)
(* and calls PopBlock: PopBlock is only ever called for a scope that a     *)
(* PushBlock opened, never for the global scope.                           *)
(***************************************************************************)
\* the snapshot of the checker a call starts from
Pre == [table |-> symbolTable, meta |-> symMeta, blocks |-> blockIndexTable,
        nextAddr |-> nextAddr, Errors |-> Errors, frames |-> frames]

restOfChecker == <<parserVars, Stmts, driverVars, emitterVars, machineVars, typeVars, lexVars>>

GlobalFrame == [id |-> 0, symDepth |-> 0, idxDepth |-> 0, declared |-> 0]

\* NewSemanticChecker: the global scope starts at index 0
InitChecker ==
    /\ Errors = <<>>
    /\ symbolTable = <<>>
    /\ blockIndexTable = <<0>>
    /\ nextAddr = 0
    /\ symMeta = <<>>
    /\ frames = <<GlobalFrame>>
    /\ last = [op |-> "New"]
    /\ calls = 0
    /\ decls = 0
    /\ Stmts = <<>>
    /\ NoParser /\ NoDriver /\ NoEmitter /\ NoMachine /\ NoTypes /\ NoLexer

\* the history entries of the symbols still in the table
TrimMeta(meta, table) == SubSeq(meta, 1, Min(Len(meta), Len(table)))

CallPushSymbol(ident, symbolType) ==
    /\ calls < MaxCalls
    /\ LET r == PushSymbol(symbolTable, blockIndexTable, nextAddr, Errors, ident, symbolType)
           top == frames[Len(frames)]
       IN  /\ symbolTable' = r.table
           /\ nextAddr' = r.nextAddr
           /\ Errors' = r.Errors
           /\ symMeta' = IF r.err THEN symMeta
                         ELSE Append(symMeta, [scope |-> top.id, ord |-> decls + 1])
           /\ frames' = IF r.err THEN frames
                        ELSE [frames EXCEPT ![Len(frames)].declared =
                                  @ + Size(symbolType)]
           /\ last' = [op |-> "PushSymbol", ident |-> ident, type |-> symbolType,
                       err |-> r.err, pre |-> Pre]
           /\ decls' = IF r.err THEN decls ELSE decls + 1
    /\ calls' = calls + 1
    /\ UNCHANGED <<blockIndexTable, restOfChecker>>

CallGetSymbol(ident) ==
    /\ calls < MaxCalls
    /\ LET r == GetSymbol(symbolTable, Errors, ident)
       IN  /\ Errors' = r.Errors
           /\ last' = [op |-> "GetSymbol", ident |-> ident, found |-> r.found,
                       index |-> r.index, symbol |-> r.symbol, pre |-> Pre]
    /\ calls' = calls + 1
    /\ UNCHANGED <<symbolTable, blockIndexTable, nextAddr, symMeta, frames, decls,
                   restOfChecker>>

CallPushBlock ==
    /\ calls < MaxCalls
    /\ blockIndexTable' = PushBlock(symbolTable, blockIndexTable)
    /\ frames' = Append(frames, [id |-> calls + 1, symDepth |-> Len(symbolTable),
                                 idxDepth |-> Len(blockIndexTable), declared |-> 0])
    /\ last' = [op |-> "PushBlock", pre |-> Pre]
    /\ calls' = calls + 1
    /\ UNCHANGED <<Errors, symbolTable, nextAddr, symMeta, decls, restOfChecker>>

CallPopBlock ==
    /\ calls < MaxCalls
    /\ Len(frames) > 1
    /\ LET r == PopBlock(symbolTable, blockIndexTable)
       IN  /\ symbolTable' = r.table
           /\ blockIndexTable' = r.blocks
           /\ symMeta' = TrimMeta(symMeta, r.table)
           /\ last' = [op |-> "PopBlock", ret |-> r.size,
                       frame |-> frames[Len(frames)], pre |-> Pre]
    /\ frames' = SubSeq(frames, 1, Len(frames) - 1)
    /\ calls' = calls + 1
    /\ UNCHANGED <<Errors, nextAddr, decls, restOfChecker>>

NextChecker ==
    \/ \E ident \in Idents, symbolType \in DeclTypes : CallPushSymbol(ident, symbolType)
    \/ \E ident \in Idents : CallGetSymbol(ident)
    \/ CallPushBlock
    \/ CallPopBlock

SpecChecker == InitChecker /\ [][NextChecker]_vars


(***************************************************************************)
(* Spec: main.  The parser has filled parser.Stmts and main has set        *)
(* errOccured if Parse returned an error; then the semantic loop, the exit *)
(* on errOccured, the code generation loop, Emitter.End, and the run of    *)
(* the program that nasm and ld build from the emitted text.               *)
(***************************************************************************)
SeqsUpTo(S, n) == UNION {[1..k -> S] : k \in 0..n}

\* uint64 x;
DeclX == VarDeclStmt(Uint64, "x", NoExpr)
\* uint64 y = 1;
DeclYInit == VarDeclStmt(Uint64, "y", UintLit("1"))
\* x = 2;
AssignX == VarDefinitionStmt(IdentExpr("x"), UintLit("2"))
\* { uint64 x; }
BlockDeclX == BlockStmt(<<DeclX>>)
\* { y = 2; }
BlockAssignY == BlockStmt(<<VarDefinitionStmt(IdentExpr("y"), UintLit("2"))>>)
\* { { uint64 x; } uint64 y = 1; }
NestedBlock == BlockStmt(<<BlockDeclX, DeclYInit>>)
\* if true { uint8 y = 1; }
IfDecl == IfStmt(BoolLit("true"), BlockStmt(<<VarDeclStmt(Uint8, "y", UintLit("1"))>>), NoStmt)
\* if false { } else { uint64 y = x; }
IfElse == IfStmt(BoolLit("false"), BlockStmt(<<>>),
                 BlockStmt(<<VarDeclStmt(Uint64, "y", IdentExpr("x"))>>))
\* assert x == 2;
AssertX == AssertStmt(BinaryExpr(IdentExpr("x"), "==", UintLit("2")))

BlockStatements ==
    {DeclX, DeclYInit, AssignX, BlockDeclX, BlockAssignY, NestedBlock, IfDecl, IfElse,
     AssertX}

\* programs of up to MaxStmts declarations, assignments, blocks and ifs
BlockPrograms == SeqsUpTo(BlockStatements, MaxStmts)

\* the expressions of the grammar, one operator deep
Atoms == {UintLit("1"), BoolLit("true"), IdentExpr("x"), IdentExpr("p")}
Expressions ==
    Atoms
    \cup {PrefixExpr(op, e) : op \in {"!", "-"}, e \in Atoms}
    \cup {DerefExpr(e) : e \in Atoms}
    \cup {ReferenceExpr(e) : e \in Atoms \cup {GroupExpr(IdentExpr("x")),
                                              ReferenceExpr(IdentExpr("x"))}}
    \cup {GroupExpr(e) : e \in Atoms}
    \cup {BinaryExpr(l, op, r) : l \in Atoms, op \in {"+", "=="}, r \in Atoms}

RECURSIVE FirstToken(_)
\* the token an expression starts with
FirstToken(e) ==
    CASE e.kind = "Literal" -> "LITERAL"
      [] e.kind = "Ident" -> "IDENT"
      [] e.kind = "Group" -> "OPEN_PAREN"
      [] e.kind = "Prefix" -> IF e.Op = "!" THEN "NOT" ELSE "MINUS"
      [] e.kind = "Deref" -> "STAR"
      [] e.kind = "Reference" -> "AMPERSAND"
      [] e.kind = "Binary" -> FirstToken(e.Left)

\* parseStatement sends a statement that starts with '*', an identifier or
\* '(' to parseVarDefinition, and every other expression to
\* parseExpressionStmt
StartsDefinition(e) == FirstToken(e) \in {"STAR", "IDENT", "OPEN_PAREN"}

ExprStatements ==
    {ExpressionStmt(e) : e \in {f \in Expressions : ~StartsDefinition(f)}}
    \cup {VarDefinitionStmt(l, r) : l \in {f \in Expressions : StartsDefinition(f)},
                                    r \in {UintLit("2"), IdentExpr("x")}}
    \cup {VarDeclStmt(t, "y", e) : t \in {Uint64, Bool}, e \in Expressions}
    \cup {AssertStmt(e) : e \in Expressions}

\* uint64* p = &x;
DeclP == VarDeclStmt(Ptr(Uint64), "p", ReferenceExpr(IdentExpr("x")))

\* one statement of each expression form, after the declarations it names
ExprPrograms ==
    {before \o <<stmt>> : before \in {<<>>, <<DeclX>>, <<DeclX, DeclP>>},
                         stmt \in ExprStatements}

\* uint64 x = 0;
DeclZero == VarDeclStmt(Uint64, "x", UintLit("0"))
\* { x = x + n; }
AddToX(n) ==
    BlockStmt(<<VarDefinitionStmt(IdentExpr("x"),
                                  BinaryExpr(IdentExpr("x"), "+", UintLit(n)))>>)
\* the conditions of the branching programs: two hold and two do not when
\* x is 0
BranchConditions ==
    {BoolLit("true"), BoolLit("false"),
     BinaryExpr(IdentExpr("x"), "==", UintLit("0")),
     BinaryExpr(IdentExpr("x"), "!=", UintLit("0"))}
\* uint64 x = 0; if c { x = x + 1; } else { x = x + 2; }
\* uint64 x = 0; if c { x = x + 1; }
BranchPrograms ==
    {<<DeclZero, IfStmt(c, AddToX("1"), AddToX("2"))>> : c \in BranchConditions}
    \cup {<<DeclZero, IfStmt(c, AddToX("1"), NoStmt)>> : c \in BranchConditions}

\* uint64 x = 0; assert c; { x = x + 1; }
AssertPrograms == {<<DeclZero, AssertStmt(c), AddToX("1")>> : c \in BranchConditions}

\* the statements nested in the branches of an if: an assert, an if, and a
\* block of both
NestedStatements ==
    {AssertStmt(BoolLit("true")),
     IfStmt(BoolLit("true"), AddToX("1"), NoStmt),
     BlockStmt(<<IfStmt(BoolLit("false"), AddToX("1"), AddToX("2")),
                 AssertStmt(BoolLit("true"))>>)}
\* uint64 x = 0; if c s else t  and  uint64 x = 0; if c s  assert true;
NestingPrograms ==
    {<<DeclZero, IfStmt(c, a, b)>> :
         c \in {BoolLit("true"), BoolLit("false")}, a \in NestedStatements,
         b \in NestedStatements}
    \cup {<<DeclZero, IfStmt(c, a, NoStmt), AssertStmt(BoolLit("true"))>> :
              c \in {BoolLit("true"), BoolLit("false")}, a \in NestedStatements}

\* the branches of an if that are a bare declaration
BareDeclarations == {VarDeclStmt(Uint64, "y", NoExpr), VarDeclStmt(Uint8, "y", UintLit("1"))}
\* { if c d }   and   uint64 x = 0; { uint64 z; if c d else { x = x + 1; } }
StackPrograms ==
    {<<BlockStmt(<<IfStmt(c, d, NoStmt)>>)>> :
         c \in {BoolLit("true"), BoolLit("false")}, d \in BareDeclarations}
    \cup {<<DeclZero, BlockStmt(<<VarDeclStmt(Uint64, "z", NoExpr),
                                   IfStmt(c, d, AddToX("1"))>>)>> :
              c \in {BoolLit("true"), BoolLit("false")}, d \in BareDeclarations}

\* binary expressions nested to the left, to the right (in parentheses) and
\* on both sides:  o1 a o2 b,  a o1 (b o2 c),  (a o1 b) o2 (b o1 c)
Operands == {UintLit("1"), UintLit("2"), IdentExpr("x")}
NestedExpressions ==
    {BinaryExpr(BinaryExpr(UintLit("2"), o1, a), o2, b) :
         o1 \in {"+", "-"}, o2 \in {"+", "-"}, a \in Operands, b \in Operands}
    \cup {BinaryExpr(UintLit("2"), o1, GroupExpr(BinaryExpr(a, o2, b))) :
              o1 \in {"+", "-"}, o2 \in {"+", "-"}, a \in Operands, b \in Operands}
    \cup {BinaryExpr(GroupExpr(BinaryExpr(UintLit("2"), o1, a)), o2,
                      GroupExpr(BinaryExpr(a, o1,
                                           GroupExpr(BinaryExpr(UintLit("1"), o2, a))))) :
              o1 \in {"+", "-"}, o2 \in {"+", "-"}, a \in Operands}
\* uint64 x = 0; x = e;   uint64 x = 0; e;   uint64 x = 0; uint64* p = &x; *p = e;
NestedExprPrograms ==
    {<<DeclZero, VarDefinitionStmt(IdentExpr("x"), e)>> : e \in NestedExpressions}
    \cup {<<DeclZero, ExpressionStmt(e)>> : e \in NestedExpressions}
    \cup {<<DeclZero, DeclP, VarDefinitionStmt(DerefExpr(IdentExpr("p")), e)>> :
              e \in NestedExpressions}

\* t b = 1;   and   t* q = &b;
DeclB(t) == VarDeclStmt(t, "b", UintLit("1"))
DeclQ(t) == VarDeclStmt(Ptr(t), "q", ReferenceExpr(IdentExpr("b")))
\* 256 == 256
LargeEqual == BinaryExpr(UintLit("256"), "==", UintLit("256"))
\* expressions of a type narrower than a register, read through a pointer,
\* read from a variable, and computed by a comparison:
\*   t b = 1; t* q = &b; t c = *q;       t b = 1; t* q = &b; assert *q == 1;
\*   t b = 1; t c = b;                   t b = 1; assert b == 1;
\*   assert 256 == 256;                  assert true == (256 == 256);
NarrowPrograms ==
    UNION {{<<DeclB(t), DeclQ(t), VarDeclStmt(t, "c", DerefExpr(IdentExpr("q")))>>,
            <<DeclB(t), DeclQ(t),
              AssertStmt(BinaryExpr(DerefExpr(IdentExpr("q")), "==", UintLit("1")))>>,
            <<DeclB(t), VarDeclStmt(t, "c", IdentExpr("b"))>>,
            <<DeclB(t), AssertStmt(BinaryExpr(IdentExpr("b"), "==", UintLit("1")))>>} :
           t \in {Uint8, Uint16, Uint64}}
    \cup {<<AssertStmt(LargeEqual)>>,
           <<AssertStmt(BinaryExpr(BoolLit("true"), "==", GroupExpr(LargeEqual)))>>}

\* values of a uint64, two with the most significant bit clear and two
\* with it set:  0,  1,  0 - 1 (2^64 - 1),  0 - 2 (2^64 - 2)
SampleValues ==
    {UintLit("0"), UintLit("1")}
    \cup {BinaryExpr(UintLit("0"), "-", UintLit(n)) : n \in {"1", "2"}}
OrderOps == {"<", "<=", ">", ">="}
\* uint64 x = a; uint64 y = b; assert x op y;
ComparePrograms ==
    {<<VarDeclStmt(Uint64, "x", a), VarDeclStmt(Uint64, "y", b),
       AssertStmt(BinaryExpr(IdentExpr("x"), op, IdentExpr("y")))>> :
         a \in SampleValues, b \in SampleValues, op \in OrderOps}

Programs ==
    BlockPrograms \cup ExprPrograms \cup BranchPrograms \cup AssertPrograms
        \cup NestingPrograms \cup StackPrograms \cup NestedExprPrograms
        \cup NarrowPrograms \cup ComparePrograms

Init ==
    /\ Stmts \in Programs
    \* parser.Parse() has returned, with an error when a statement after the
    \* ones kept in Stmts failed to parse; main sets errOccured on an error
    /\ ret \in {"nil", "error"}
    /\ ParserErrors = IF ret = "error" THEN <<ParserError("ASSIGN", "Invalid expression")>>
                      ELSE <<>>
    /\ failures = Len(ParserErrors)
    /\ pstate = "returned"
    /\ tokens = <<>>
    /\ idx = 0
    /\ errOccured = (ret = "error")
    \* NewSemanticChecker
    /\ Errors = <<>>
    /\ symbolTable = <<>>
    /\ blockIndexTable = <<0>>
    /\ nextAddr = 0
    /\ stmtIdx = 1
    /\ pc = "semantics"
    /\ exitCode = 0
    /\ verdicts = <<>>
    /\ panicMsg = ""
    /\ NoHistory /\ NoEmitter /\ NoMachine /\ NoTypes /\ NoLexer

\* one iteration of the semantic loop: stmt.Semantics(semantics); a Go
\* stack overflow ends the process with status 2
AnalyseStatement ==
    /\ pc = "semantics"
    /\ stmtIdx <= Len(Stmts)
    /\ LET r == Semantics(symbolTable, blockIndexTable, nextAddr, Errors, Stmts[stmtIdx])
       IN  /\ Stmts' = [Stmts EXCEPT ![stmtIdx] = r.node]
           /\ Errors' = r.Errors
           /\ symbolTable' = r.table
           /\ blockIndexTable' = r.blocks
           /\ nextAddr' = r.nextAddr
           /\ verdicts' = Append(verdicts, r.st)
           /\ IF r.st = "crash"
              THEN pc' = "exit" /\ exitCode' = 2 /\ UNCHANGED errOccured
              ELSE /\ errOccured' = (errOccured \/ r.st = "err")
                   /\ UNCHANGED <<pc, exitCode>>
    /\ stmtIdx' = stmtIdx + 1
    /\ UNCHANGED <<panicMsg, historyVars, typeVars, lexVars, parserVars, emitterVars, machineVars>>

\* if errOccured { os.Exit(1) }
ExitOnError ==
    /\ pc = "semantics"
    /\ stmtIdx > Len(Stmts)
    /\ errOccured
    /\ pc' = "exit"
    /\ exitCode' = 1
    /\ UNCHANGED <<checkerVars, historyVars, typeVars, lexVars, parserVars, Stmts, stmtIdx, errOccured,
                   verdicts, panicMsg, emitterVars, machineVars>>

\* emitter := codegen.NewEmitter()
StartCodegen ==
    /\ pc = "semantics"
    /\ stmtIdx > Len(Stmts)
    /\ ~errOccured
    /\ pc' = "codegen"
    /\ stmtIdx' = 1
    /\ Code' = NewEmitter
    /\ LabelCount' = 0
    /\ UNCHANGED <<checkerVars, historyVars, typeVars, lexVars, parserVars, Stmts, errOccured, exitCode,
                   verdicts, panicMsg, machineVars>>

\* one iteration of the code generation loop: stmt.EmitCode(emitter); a
\* panic ends the process with status 2
EmitStatement ==
    /\ pc = "codegen"
    /\ stmtIdx <= Len(Stmts)
    /\ LET r == EmitCode(Stmts[stmtIdx], LabelCount)
       IN  /\ Code' = Code \o r.code
           /\ LabelCount' = r.labels
           /\ IF r.st = "panic"
              THEN pc' = "exit" /\ exitCode' = 2 /\ panicMsg' = r.msg
              ELSE UNCHANGED <<pc, exitCode, panicMsg>>
    /\ stmtIdx' = stmtIdx + 1
    /\ UNCHANGED <<checkerVars, historyVars, typeVars, lexVars, parserVars, Stmts, errOccured, verdicts,
                   machineVars>>

\* emitter.End(), nasm, ld, and the start of the built program at _start
FinishAndRun ==
    /\ pc = "codegen"
    /\ stmtIdx > Len(Stmts)
    /\ Code' = Code \o End
    /\ pc' = "done"
    /\ ip' = 1
    /\ rsp' = EntryRsp
    /\ status' = "running"
    /\ UNCHANGED <<checkerVars, historyVars, typeVars, lexVars, parserVars, Stmts, stmtIdx, errOccured,
                   exitCode, verdicts, panicMsg, LabelCount, rbp, rax, rbx, rdi, flags,
                   mem, pushes>>

\* the pushes not yet popped after an instruction has led to machine state m
Pending(open, ins, m) ==
    IF m.status = "fault" THEN open
    ELSE IF ins.op = "push rax" THEN Append(open, [val |-> rax, rsp |-> rsp])
    ELSE IF ins.op = "pop rbx" /\ open # <<>> THEN SubSeq(open, 1, Len(open) - 1)
    ELSE open

\* the built program executes the instruction at ip
Step ==
    /\ pc = "done"
    /\ status = "running"
    /\ ip \in 1..Len(Code)
    /\ \E m \in Exec(Machine, Code[ip], Code) :
           /\ ip' = m.ip
           /\ rsp' = m.rsp
           /\ rbp' = m.rbp
           /\ rax' = m.rax
           /\ rbx' = m.rbx
           /\ rdi' = m.rdi
           /\ flags' = m.flags
           /\ mem' = m.mem
           /\ status' = m.status
           /\ pushes' = Pending(pushes, Code[ip], m)
    /\ UNCHANGED <<checkerVars, historyVars, typeVars, lexVars, parserVars, Stmts, driverVars, emitterVars>>

Next ==
    \/ AnalyseStatement
    \/ ExitOnError
    \/ StartCodegen
    \/ EmitStatement
    \/ FinishAndRun
    \/ Step

Spec == Init /\ [][Next]_vars

(***************************************************************************)
(* SpecParse: Parser.Parse on a token sequence that ends with EOF, one     *)
(* iteration of the loop of parseStatements at a time.                     *)
(***************************************************************************)
EOFToken == Token("EOF", "")
StatementTokens ==
    {Token("SEMI", ";"), Token("OPEN_CURLY", "{"), Token("CLOSE_CURLY", "}"),
     Token("WHILE", "while"), Token("FOR", "for"), Token("IF", "if"),
     Token("UINT_64", "uint64"), Token("IDENT", "x"), Token("ASSIGN", "="),
     Token("UINT_64_LIT", "1")}
ExpressionTokens ==
    {Token("UINT_64_LIT", "1"), Token("TRUE_LIT", "true"), Token("IDENT", "x"),
     Token("STAR", "*"), Token("AMPERSAND", "&"), Token("NOT", "!"), Token("MINUS", "-"),
     Token("PLUS", "+"), Token("EQ", "=="), Token("LESS_THAN", "<"),
     Token("OPEN_PAREN", "("), Token("CLOSE_PAREN", ")")}
\* the tokens a statement opens with, before its expression
Openers == {<<>>, <<Token("ASSERT", "assert")>>, <<Token("IF", "if")>>}

\* statements and blocks of up to MaxTokens tokens, and an expression of up
\* to MaxTokens - 1 tokens with the opening of a statement before it and a
\* ';' after it
TokenSequences ==
    SeqsUpTo(StatementTokens, MaxTokens)
    \cup {open \o e \o <<Token("SEMI", ";")>> :
              open \in Openers, e \in SeqsUpTo(ExpressionTokens, MaxTokens - 1)}

\* the operator tokens of each binary level of the expression grammar
OperatorLevels ==
    {{Token("EQ", "=="), Token("NEQ", "!=")},
     {Token("LESS_THAN", "<"), Token("LESS_EQ_THAN", "<="),
      Token("GREATER_THAN", ">"), Token("GREATER_EQ_THAN", ">=")},
     {Token("PLUS", "+"), Token("MINUS", "-")},
     {Token("STAR", "*"), Token("F_SLASH", "/")}}

\* 1 o1 2 o2 3 ;
Chain(o1, o2) ==
    <<Token("UINT_64_LIT", "1"), o1, Token("UINT_64_LIT", "2"), o2,
      Token("UINT_64_LIT", "3"), Token("SEMI", ";")>>

\* an expression statement of three operands joined by two operators of the
\* same level, for every level
ChainSequences ==
    UNION {{Chain(o1, o2) : o1, o2 \in level} : level \in OperatorLevels}

\* 1 ;
OneStatement == <<Token("UINT_64_LIT", "1"), Token("SEMI", ";")>>
\* statements that fail to parse, each ended by its ';':
\*   = ;     uint64 ;     uint64 x = ;     x = ;     1 1 ;
BadStatements ==
    {<<Token("ASSIGN", "="), Token("SEMI", ";")>>,
     <<Token("UINT_64", "uint64"), Token("SEMI", ";")>>,
     <<Token("UINT_64", "uint64"), Token("IDENT", "x"), Token("ASSIGN", "="),
       Token("SEMI", ";")>>,
     <<Token("IDENT", "x"), Token("ASSIGN", "="), Token("SEMI", ";")>>,
     <<Token("UINT_64_LIT", "1"), Token("UINT_64_LIT", "1"), Token("SEMI", ";")>>}
\* a block with one bad statement, with or without a good statement before
\* it, after it in the block, and after the block
RecoveryInputs ==
    [pre : {<<>>, OneStatement}, bad : BadStatements, post : {<<>>, OneStatement},
     after : {<<>>, OneStatement}]
\* { pre bad post } after
RecoveryTokens(in) ==
    <<Token("OPEN_CURLY", "{")>> \o in.pre \o in.bad \o in.post
        \o <<Token("CLOSE_CURLY", "}")>> \o in.after
RecoverySequences == {RecoveryTokens(in) : in \in RecoveryInputs}

\* NewSemanticChecker, before main uses it
NoChecker ==
    /\ Errors = <<>>
    /\ symbolTable = <<>>
    /\ blockIndexTable = <<0>>
    /\ nextAddr = 0

\* NewParser
InitParse ==
    /\ tokens \in {body \o <<EOFToken>> :
                      body \in TokenSequences \cup ChainSequences \cup RecoverySequences}
    /\ idx = 0
    /\ ParserErrors = <<>>
    /\ Stmts = <<>>
    /\ pstate = "parsing"
    /\ ret = "none"
    /\ failures = 0
    /\ NoChecker /\ NoHistory /\ NoDriver /\ NoEmitter /\ NoMachine /\ NoTypes /\ NoLexer

\* the condition of the loop of parseStatements
MoreStatements == idx < Len(tokens) /\ TypeAt(tokens, idx) # "EOF"

\* one iteration of the loop of parseStatements.  An iteration that leaves
\* everything but Stmts as it was is followed by the same iteration again:
\* the model follows such a loop until Stmts holds more statements than
\* there are tokens.
ParseOneStatement ==
    /\ pstate = "parsing"
    /\ MoreStatements
    /\ Len(Stmts) <= Len(tokens)
    /\ \E r \in {parseStatement(tokens, idx, ParserErrors, failures)} :
           /\ failures' = r.fails
           /\ CASE r.st = "ok" ->
                       /\ Stmts' = Append(Stmts, r.node)
                       /\ idx' = r.idx
                       /\ ParserErrors' = r.errs
                       /\ UNCHANGED pstate
                [] r.st = "err" ->
                       \E sy \in {synchronize(tokens, r.idx)} :
                           /\ ParserErrors' = Append(r.errs, r.err)
                           /\ idx' = sy.idx
                           /\ pstate' = IF sy.st = "panic" THEN "panicked" ELSE pstate
                           /\ UNCHANGED Stmts
                [] r.st = "panic" ->
                       /\ ParserErrors' = r.errs
                       /\ idx' = r.idx
                       /\ pstate' = "panicked"
                       /\ UNCHANGED Stmts
                [] r.st = "diverge" ->
                       /\ ParserErrors' = r.errs
                       /\ idx' = r.idx
                       /\ pstate' = "diverged"
                       /\ UNCHANGED Stmts
    /\ UNCHANGED <<tokens, ret, checkerVars, historyVars, typeVars, lexVars, driverVars, emitterVars,
                   machineVars>>

\* the loop is over: Parse returns the last error, or nil
ParseReturn ==
    /\ pstate = "parsing"
    /\ ~MoreStatements
    /\ pstate' = "returned"
    /\ ret' = ParseReturns(ParserErrors)
    /\ UNCHANGED <<tokens, idx, ParserErrors, Stmts, failures, checkerVars, historyVars, typeVars, lexVars,
                   driverVars, emitterVars, machineVars>>

NextParse ==
    \/ ParseOneStatement
    \/ ParseReturn

SpecParse == InitParse /\ [][NextParse]_vars

(***************************************************************************)
(* Claims about the parser, checked under SpecParse.                       *)
(***************************************************************************)
\* C5: Parse terminates on every token sequence that ends with EOF: every
\* iteration of the statement loop moves the cursor forward, past a WHILE
\* or FOR token too, and no loop inside it runs for ever.
C5_ParseMakesProgress ==
    [][pstate = "parsing" =>
           (pstate' # "diverged" /\ (pstate' = "parsing" => idx' > idx))]_vars

\* C6: when Parse returns, it returns nil exactly when Errors is empty, and
\* Errors holds one ParserError for every syntax failure raised, whether
\* at top level or inside a block.
C6_NilIffNoErrors ==
    pstate = "returned" =>
        /\ (ret = "nil" <=> ParserErrors = <<>>)
        /\ Len(ParserErrors) = failures

\* Parse has returned an error for a sequence whose only failure was met
\* inside a block that then parsed to its '}'.
C6_Witness ==
    /\ pstate = "returned"
    /\ ret = "error"
    /\ failures = 1
    /\ Len(ParserErrors) = 1
    /\ Len(Stmts) = 1
    /\ Stmts[1].kind = "Block"

(***************************************************************************)
(* Claims about the driver, checked under Spec.                            *)
(***************************************************************************)
\* C1: once semantic analysis has recorded an error, anywhere in the
\* program, the driver never reaches code generation: it is still in the
\* semantic loop, or it has exited with a nonzero status.
C1_NoCodegenAfterSemanticError ==
    Errors # <<>> =>
        /\ pc \in {"semantics", "exit"}
        /\ Code = <<>>
        /\ (pc = "exit" => exitCode # 0)

\* an access of a local through rbp
LocalAccess(ins) == ins.op \in {"mov reg, [rbp - off]", "mov [rbp - off], reg"}

\* C2: while the program emitted for an input without semantic errors
\* runs, rbp holds what the prologue put there (the rsp of _start), and
\* when the next instruction reads or writes [rbp - offset], the offset is
\* within the region allocated so far: rbp - rsp >= offset.
C2_LocalsInsideAllocatedStack ==
    (pc = "done" /\ status = "running" /\ Errors = <<>> /\ ip \in 2..Len(Code)) =>
        /\ rbp = Known(EntryRsp)
        /\ (LocalAccess(Code[ip]) => rbp.v - rsp >= Code[ip].arg)

Concrete(t) == t.k \notin {"UNDEFINED", "nil"}

RECURSIVE ExprTyped(_)
\* every expression node of the tree has a concrete type
ExprTyped(e) ==
    CASE e.kind = "None" -> TRUE
      [] e.kind \in {"Literal", "Ident"} -> Concrete(e.Type)
      [] e.kind = "Group" -> Concrete(e.Type) /\ ExprTyped(e.Expr)
      [] e.kind = "Binary" -> Concrete(e.Type) /\ ExprTyped(e.Left) /\ ExprTyped(e.Right)
      [] e.kind \in {"Prefix", "Deref", "Reference"} -> Concrete(e.Type) /\ ExprTyped(e.Right)

RECURSIVE StmtTyped(_)
\* every expression node reachable from the statement has a concrete type
StmtTyped(stmt) ==
    CASE stmt.kind = "None" -> TRUE
      [] stmt.kind = "VarDecl" -> ExprTyped(stmt.Value)
      [] stmt.kind = "VarDefinition" -> ExprTyped(stmt.Left) /\ ExprTyped(stmt.Right)
      [] stmt.kind \in {"Assert", "ExprStmt"} -> ExprTyped(stmt.Expr)
      [] stmt.kind = "Block" ->
             \A j \in 1..Len(stmt.Statements) : StmtTyped(stmt.Statements[j])
      [] stmt.kind = "If" ->
             ExprTyped(stmt.Condition) /\ StmtTyped(stmt.Stmt) /\ StmtTyped(stmt.ElseStmt)

\* C4: when the Semantics of a top-level statement returned no error (and
\* no error was recorded at all), every expression node reachable from
\* the statement has a concrete type, not Undefined and not unset.
C4_TypedAfterSemantics ==
    \A i \in 1..Len(verdicts) :
        (verdicts[i] = "ok" /\ Errors = <<>>) => StmtTyped(Stmts[i])

(***************************************************************************)
(* Claims about the symbol table, checked under SpecChecker.               *)
(***************************************************************************)
\* ids of the scopes open in a snapshot
OpenScopes(fr) == {fr[i].id : i \in 1..Len(fr)}

\* C3: after PopBlock the symbol table and the scope-index stack are as deep
\* as they were just before the matching PushBlock, and the value PopBlock
\* returns is the sum of the sizes of the symbols declared in that scope
\* itself (the symbols of inner blocks were popped and counted by their own
\* PopBlock).
C3_PopBlockRestores ==
    last.op = "PopBlock" =>
        /\ Len(symbolTable) = last.frame.symDepth
        /\ Len(blockIndexTable) = last.frame.idxDepth
        /\ last.ret = last.frame.declared

\* a nested block that declared symbols of its own, after an inner block of
\* it was popped, is popped while the enclosing scope holds symbols
C3_Witness ==
    /\ last.op = "PopBlock"
    /\ last.ret > 0
    /\ Len(symbolTable) > 0
    /\ Len(last.pre.table) > Len(symbolTable)

\* C7: PushSymbol fails with "Redeclaration of symbol" exactly when the
\* identifier was already declared in the innermost scope; then the table
\* and nextAddr are unchanged and one error is appended. Otherwise, also
\* when an outer scope holds the identifier, the symbol is pushed and is the
\* one the identifier resolves to from then on.
C7_RedeclarationExactlyInScope ==
    last.op = "PushSymbol" =>
        LET pre == last.pre
            cur == pre.frames[Len(pre.frames)].id
            dup == \E i \in 1..Len(pre.table) :
                       /\ pre.table[i].Ident = last.ident
                       /\ pre.meta[i].scope = cur
        IN  /\ last.err <=> dup
            /\ dup => /\ symbolTable = pre.table
                      /\ nextAddr = pre.nextAddr
                      /\ Errors = Append(pre.Errors, RedeclarationError(last.ident))
            /\ ~dup => /\ Len(symbolTable) = Len(pre.table) + 1
                       /\ SubSeq(symbolTable, 1, Len(pre.table)) = pre.table
                       /\ symbolTable[Len(symbolTable)].Ident = last.ident
                       /\ Errors = pre.Errors
                       /\ GetSymbol(symbolTable, Errors, last.ident).index
                              = Len(symbolTable)

\* a redeclaration was refused earlier, and now an inner scope declares an
\* identifier that an outer scope holds
C7_Witness ==
    /\ last.op = "PushSymbol"
    /\ ~last.err
    /\ \E i \in 1..Len(last.pre.table) : last.pre.table[i].Ident = last.ident
    /\ \E e \in 1..Len(Errors) : Errors[e].msg = "Redeclaration of symbol"

\* C8: GetSymbol returns the most recently declared symbol of that
\* identifier among the symbols of the scopes still open (so the innermost
\* declaration), never one of a popped scope; when there is none it appends
\* one "Undeclared symbol" error; the table is unchanged either way.
C8_GetSymbolInnermostLive ==
    last.op = "GetSymbol" =>
        LET pre == last.pre
            live == {i \in 1..Len(pre.table) :
                        /\ pre.table[i].Ident = last.ident
                        /\ pre.meta[i].scope \in OpenScopes(pre.frames)}
        IN  /\ last.found <=> live # {}
            /\ last.found =>
                   /\ last.index \in live
                   /\ \A j \in live : pre.meta[j].ord <= pre.meta[last.index].ord
                   /\ last.symbol = pre.table[last.index]
                   /\ Errors = pre.Errors
            /\ ~last.found => Errors = Append(pre.Errors, UndeclaredError(last.ident))
            /\ symbolTable = pre.table
            /\ blockIndexTable = pre.blocks
            /\ nextAddr = pre.nextAddr

\* C8 witness: the identifier is resolved while the table holds two symbols
\* of that name, and the one returned is the latest, at the top of the table
C8_Witness ==
    /\ last.op = "GetSymbol"
    /\ last.found
    /\ Cardinality({i \in 1..Len(symbolTable) : symbolTable[i].Ident = last.ident}) >= 2
    /\ last.index = Len(symbolTable)

\* C9: two symbols declared one after the other in the same scope have
\* increasing offsets that differ by the size of the second, and the first
\* symbol ever declared has its own size as offset.
C9_OffsetsMonotoneInScope ==
    /\ \A i \in 1..(Len(symbolTable) - 1) :
           symMeta[i].scope = symMeta[i + 1].scope =>
               /\ symbolTable[i + 1].Offset > symbolTable[i].Offset
               /\ symbolTable[i + 1].Offset - symbolTable[i].Offset
                      = symbolTable[i + 1].Size
    /\ \A i \in 1..Len(symbolTable) :
           symMeta[i].ord = 1 => symbolTable[i].Offset = symbolTable[i].Size

\* C10: no two symbols in the symbol table have the same stack offset.
C10_LiveOffsetsDistinct ==
    \A i, j \in 1..Len(symbolTable) :
        i # j => symbolTable[i].Offset # symbolTable[j].Offset

(***************************************************************************)
(* Claims about semantic analysis and code generation (Spec).              *)
(***************************************************************************)
\* every top-level Semantics call so far returned nil and the checker
\* recorded no error
CleanAnalysis ==
    /\ Errors = <<>>
    /\ \A i \in 1..Len(verdicts) : verdicts[i] = "ok"

\* C11: for a program that semantic analysis passed without any error, code
\* generation never reaches the panic of ReferenceExpression.EmitAddressCode
\* (address of an address, as in &&x).
C11_NoAddressOfAddressPanic == CleanAnalysis => panicMsg # AddressOfAddress

RECURSIVE DenotesStorage(_)
\* an expression that denotes a storage location: an addressable node, or
\* parentheses around one
DenotesStorage(e) ==
    IF e.kind = "Group" THEN DenotesStorage(e.Expr) ELSE IsAddressable(e) = "true"

\* the statements analysed before statement i were declarations that passed
OnlyDeclarationsBefore(i) ==
    \A j \in 1..(i - 1) : Stmts[j].kind = "VarDecl" /\ verdicts[j] = "ok"

\* C12: VarDefinitionStmt.Semantics returns no error only if the left side
\* denotes a storage location and left.type.CanUseOperator("=", right.type)
\* is allowed; otherwise exactly one semantic error is added.
C12_AssignmentNeedsAddressableLeft ==
    \A i \in 1..Len(verdicts) :
        Stmts[i].kind = "VarDefinition" =>
            /\ verdicts[i] = "ok" =>
                   /\ DenotesStorage(Stmts[i].Left)
                   /\ CanUseOperator(Stmts[i].Left.Type, "=", Stmts[i].Right.Type).ok
            /\ (verdicts[i] = "err" /\ OnlyDeclarationsBefore(i) /\ Len(verdicts) = i) =>
                   Len(Errors) = 1

\* main is about to analyse a declaration with an initializer, and the
\* initializer's own Semantics returns nil
DeclWithInitializer ==
    /\ pc = "semantics"
    /\ stmtIdx <= Len(Stmts)
    /\ stmtIdx' = stmtIdx + 1
    /\ Stmts[stmtIdx].kind = "VarDecl"
    /\ Stmts[stmtIdx].Value.kind # "None"
    /\ ExprSemantics(symbolTable, Errors, Stmts[stmtIdx].Value).st = "ok"

\* the declared type and the type the initializer got: equal ids, or both
\* numbers
TypesMatch(decl) ==
    \/ TypeID(decl.VarType) = TypeID(decl.Value.Type)
    \/ IsNumber(decl.VarType) /\ IsNumber(decl.Value.Type)

MismatchError == SemanticError("Declared type and initialized value type do not match")

\* on a mismatch one "Declared type ... do not match" error is added and
\* nothing is pushed
MismatchIsRefused ==
    ~TypesMatch(Stmts'[stmtIdx]) =>
        /\ Errors' = Append(Errors, MismatchError)
        /\ symbolTable' = symbolTable
        /\ nextAddr' = nextAddr

\* C13 as stated: VarDeclStmt.Semantics with an initializer succeeds iff the
\* declared type's id equals the initializer's type id or both are numbers;
\* on a mismatch exactly one "Declared type ... do not match" error is added
\* and no symbol is pushed.
C13_DeclSucceedsIffTypesMatch ==
    [][DeclWithInitializer =>
           /\ (verdicts'[stmtIdx] = "ok" <=> TypesMatch(Stmts'[stmtIdx]))
           /\ MismatchIsRefused]_vars

\* C13 amended: VarDeclStmt.Semantics with an initializer succeeds iff the
\* types match and the identifier is not already declared in the current
\* scope; on a mismatch exactly one "Declared type ... do not match" error is
\* added and no symbol is pushed.
C13_DeclSucceedsIffTypesMatchAndNew ==
    [][DeclWithInitializer =>
           /\ verdicts'[stmtIdx] = "ok" <=>
                  /\ TypesMatch(Stmts'[stmtIdx])
                  /\ ~TopBlockHasSymbol(symbolTable, blockIndexTable, Stmts[stmtIdx].Ident)
           /\ MismatchIsRefused]_vars

\* C13 witness: a declaration of a bool initialized with a number was
\* refused with the mismatch error and pushed nothing.
C13_Witness ==
    /\ Len(verdicts) = 1
    /\ verdicts[1] = "err"
    /\ Stmts[1].kind = "VarDecl"
    /\ Stmts[1].VarType = Bool
    /\ Stmts[1].Value.kind = "Literal"
    /\ Stmts[1].Value.Type = UintLiteral
    /\ Errors = <<MismatchError>>
    /\ symbolTable = <<>>
    /\ nextAddr = 0

(***************************************************************************)
(* SpecTypes: one call of a method of semantics.Type on types of a bounded *)
(* universe; the methods are pure, so a behaviour is a single call.        *)
(***************************************************************************)
\* the largest array length of the universe
MaxArrayLength == 1

\* the variants without a payload
Primitives == {Undefined, UintLiteral, Uint64, Uint32, Uint16, Uint8, Bool}
FixedWidth == {Uint64, Uint32, Uint16, Uint8}

TypeUniverse ==
    Primitives
    \cup {Ptr(t) : t \in Primitives}
    \cup {Ptr(Ptr(Uint64))}
    \cup {Array(base, n) : base \in {UintLiteral, Uint64, Uint16}, n \in 0..MaxArrayLength}

BinaryOperators == ArithOps \cup CmpOps
UnaryOperators == {"&", "*", "!"}

InitTypes ==
    /\ typeCall = [op |-> "none"]
    /\ Stmts = <<>>
    /\ NoChecker /\ NoHistory /\ NoParser /\ NoDriver /\ NoEmitter /\ NoMachine /\ NoLexer

restOfTypes ==
    <<checkerVars, historyVars, parserVars, Stmts, driverVars, emitterVars, machineVars,
      lexVars>>

\* t.Equals(other)
CallEquals(t, other) ==
    /\ typeCall.op = "none"
    /\ typeCall' = [op |-> "Equals", t |-> t, other |-> other,
                    result |-> Equals(t, other)]
    /\ UNCHANGED restOfTypes

\* t.CanUseOperator(operator, operand)
CallCanUseOperator(t, operator, operand) ==
    /\ typeCall.op = "none"
    /\ typeCall' = [op |-> "CanUseOperator", t |-> t, operator |-> operator,
                    operand |-> operand,
                    result |-> CanUseOperator(t, operator, operand)]
    /\ UNCHANGED restOfTypes

\* t.CanUseUnaryOperator(operator)
CallCanUseUnaryOperator(t, operator) ==
    /\ typeCall.op = "none"
    /\ typeCall' = [op |-> "CanUseUnaryOperator", t |-> t, operator |-> operator,
                    result |-> CanUseUnaryOperator(t, operator)]
    /\ UNCHANGED restOfTypes

NextTypes ==
    \/ \E t, other \in TypeUniverse : CallEquals(t, other)
    \/ \E t, operand \in TypeUniverse : \E operator \in BinaryOperators :
           CallCanUseOperator(t, operator, operand)
    \/ \E t \in TypeUniverse : \E operator \in UnaryOperators :
           CallCanUseUnaryOperator(t, operator)

SpecTypes == InitTypes /\ [][NextTypes]_vars

(***************************************************************************)
(* Claims about the types (SpecTypes).                                     *)
(***************************************************************************)
\* C14: Equals is bidirectional between a literal and every fixed-width
\* integer type (T.Equals(UintLiteral) and UintLiteral.Equals(T) are both
\* true), and symmetric for every pair of types.
C14_EqualsSymmetric ==
    typeCall.op = "Equals" =>
        /\ typeCall.result = Equals(typeCall.other, typeCall.t)
        /\ (typeCall.t \in FixedWidth /\ typeCall.other = UintLiteral) => typeCall.result
        /\ (typeCall.t = UintLiteral /\ typeCall.other \in FixedWidth) => typeCall.result

\* C15: between a fixed-width unsigned type T and a literal, in either
\* order, every arithmetic operator gives (true, T) and every comparison
\* gives (true, Bool); between two different fixed-width types every
\* operator gives (false, Undefined).
C15_LiteralMixing ==
    typeCall.op = "CanUseOperator" =>
        LET t == typeCall.t
            operand == typeCall.operand
        IN  /\ (t \in FixedWidth /\ operand = UintLiteral) =>
                   /\ typeCall.operator \in {"+", "-", "*", "/"} => typeCall.result = Yes(t)
                   /\ typeCall.operator \in CmpOps => typeCall.result = Yes(Bool)
            /\ (t = UintLiteral /\ operand \in FixedWidth) =>
                   /\ typeCall.operator \in {"+", "-", "*", "/"} =>
                          typeCall.result = Yes(operand)
                   /\ typeCall.operator \in CmpOps => typeCall.result = Yes(Bool)
            /\ (t \in FixedWidth /\ operand \in FixedWidth /\ t # operand) =>
                   typeCall.result = No

\* C15 witness: a literal on the left of '+' with a uint16 on the right gave
\* (true, Uint16)
C15_Witness ==
    /\ typeCall.op = "CanUseOperator"
    /\ typeCall.t = UintLiteral
    /\ typeCall.operator = "+"
    /\ typeCall.operand = Uint16
    /\ typeCall.result = [ok |-> TRUE, type |-> Uint16]

\* '&' on t gives (true, Ptr(t)), and '*' on that pointer gives t back
ReferenceThenDeref(t) ==
    /\ typeCall.result = Yes(Ptr(t))
    /\ CanUseUnaryOperator(typeCall.result.type, "*").ok
    /\ TypeID(CanUseUnaryOperator(typeCall.result.type, "*").type) = TypeID(t)

\* '*' on a pointer gives (true, the pointed-to type)
DerefGivesValueType ==
    (typeCall.op = "CanUseUnaryOperator" /\ typeCall.operator = "*" /\ typeCall.t.k = "PTR") =>
        typeCall.result = Yes(typeCall.t.ValueType)

\* C16 as stated: for every primitive type T that is not an array (the
\* literal type included), T.CanUseUnaryOperator("&") returns (true, Ptr(T))
\* and Ptr(T).CanUseUnaryOperator("*") returns (true, T), so '&' then '*'
\* yields T again.
C16_ReferenceDerefRoundTrip ==
    /\ (typeCall.op = "CanUseUnaryOperator" /\ typeCall.operator = "&"
            /\ typeCall.t \in FixedWidth \cup {Bool, UintLiteral}) =>
           ReferenceThenDeref(typeCall.t)
    /\ DerefGivesValueType

\* C16 amended: the same for every fixed-width unsigned type and Bool; the
\* literal type has no unary operator.
C16_ReferenceDerefRoundTripDeclarable ==
    /\ (typeCall.op = "CanUseUnaryOperator" /\ typeCall.operator = "&"
            /\ typeCall.t \in FixedWidth \cup {Bool}) =>
           ReferenceThenDeref(typeCall.t)
    /\ (typeCall.op = "CanUseUnaryOperator" /\ typeCall.t = UintLiteral) =>
           typeCall.result = No
    /\ DerefGivesValueType

\* C16 witness: '&' on uint8 gave (true, Ptr(Uint8))
C16_Witness ==
    /\ typeCall.op = "CanUseUnaryOperator"
    /\ typeCall.operator = "&"
    /\ typeCall.t = Uint8
    /\ typeCall.result = [ok |-> TRUE, type |-> Ptr(Uint8)]

(***************************************************************************)
(* Claims about the expression grammar (SpecParse).                        *)
(***************************************************************************)
\* the left-associative tree of 1 o1 2 o2 3
LeftChain(o1, o2) ==
    BinaryExpr(BinaryExpr(UintLit("1"), o1.Value, UintLit("2")), o2.Value, UintLit("3"))

\* C17: every binary level (equality, comparison, term, factor) iterates
\* while an operator of the level is under the cursor: 'a o1 b o2 c' with
\* o1, o2 of one level is parsed completely, without error, as
\* Binary(Binary(a, o1, b), o2, c), also when o1 and o2 are '==' or '!='.
C17_LeftAssociativeChains ==
    \A level \in OperatorLevels : \A o1, o2 \in level :
        (tokens = Chain(o1, o2) \o <<EOFToken>> /\ pstate = "returned") =>
            /\ ret = "nil"
            /\ Stmts = <<ExpressionStmt(LeftChain(o1, o2))>>

(***************************************************************************)
(* Claims about the stages of main (Spec).                                 *)
(***************************************************************************)
\* C18: when the parser produced an error the driver halts after that
\* stage: no Semantics call is made, no code is generated, nothing is
\* assembled or run, and the exit status is nonzero.
C18_HaltAfterParseError ==
    ret = "error" =>
        /\ verdicts = <<>>
        /\ Code = <<>>
        /\ pc \in {"semantics", "exit"}
        /\ pc = "exit" => exitCode # 0

(***************************************************************************)
(* Claims about the emitted program (Spec).                                *)
(***************************************************************************)
\* the statement is the block { x = x + n; }
AddsToX(stmt, n) ==
    /\ stmt.kind = "Block"
    /\ Len(stmt.Statements) = 1
    /\ stmt.Statements[1].kind = "VarDefinition"
    /\ stmt.Statements[1].Left.kind = "Ident"
    /\ stmt.Statements[1].Right.kind = "Binary"
    /\ stmt.Statements[1].Right.Op = "+"
    /\ stmt.Statements[1].Right.Right.Value = n

\* the program being run is: uint64 x = 0; if c { x = x + 1; } [else
\* { x = x + 2; }], with the condition written as the text says
RunsBranchProgram(text, withElse) ==
    /\ Len(Stmts) = 2
    /\ Stmts[1].kind = "VarDecl"
    /\ Stmts[1].Ident = "x"
    /\ Stmts[1].Value.kind = "Literal"
    /\ Stmts[1].Value.Value = "0"
    /\ Stmts[2].kind = "If"
    /\ (IF Stmts[2].Condition.kind = "Literal" THEN Stmts[2].Condition.Value
        ELSE Stmts[2].Condition.Op) = text
    /\ AddsToX(Stmts[2].Stmt, "1")
    /\ (Stmts[2].ElseStmt.kind # "None") = withElse
    /\ withElse => AddsToX(Stmts[2].ElseStmt, "2")

\* the program has left through the epilogue (exit status 0) with this
\* value in the local at [rbp - 8]
EndsWithX(n) ==
    /\ rdi = Known(0)
    /\ rbp.known
    /\ Read(mem, rbp.v - 8, Size(Uint64)) = Known(n)

\* C19: in the code of an if statement exactly one branch runs per
\* execution: the then-branch iff the condition evaluated to true, the
\* else-branch (when present) iff it did not, and control then continues
\* at the end label; the then-branch never falls through into the
\* else-branch.  With x = 0 before, the then-branch adding 1 and the
\* else-branch adding 2, the program ends with x = 1 when the condition
\* holds, and with x = 2 (x = 0 without an else) when it does not.
C19_ExactlyOneBranch ==
    (pc = "done" /\ status = "exited") =>
        /\ \A text \in {"true", "=="} : \A withElse \in BOOLEAN :
               RunsBranchProgram(text, withElse) => EndsWithX(1)
        /\ \A text \in {"false", "!="} :
               /\ RunsBranchProgram(text, TRUE) => EndsWithX(2)
               /\ RunsBranchProgram(text, FALSE) => EndsWithX(0)

\* C19 witness: the program with the condition x == 0 and an else-branch
\* has run to its end and x is 1
C19_Witness ==
    /\ pc = "done"
    /\ status = "exited"
    /\ RunsBranchProgram("==", TRUE)
    /\ EndsWithX(1)

\* the program being run is: uint64 x = 0; assert c; { x = x + 1; }, with
\* the condition written as the text says
RunsAssertProgram(text) ==
    /\ Len(Stmts) = 3
    /\ Stmts[1].kind = "VarDecl"
    /\ Stmts[1].Ident = "x"
    /\ Stmts[1].Value.kind = "Literal"
    /\ Stmts[1].Value.Value = "0"
    /\ Stmts[2].kind = "Assert"
    /\ (IF Stmts[2].Expr.kind = "Literal" THEN Stmts[2].Expr.Value
        ELSE Stmts[2].Expr.Op) = text
    /\ Stmts[3].kind = "Block"

\* the program has ended with exit status 1 and this value in the local at
\* [rbp - 8]
FailsWithX(n) ==
    /\ rdi = Known(1)
    /\ rbp.known
    /\ Read(mem, rbp.v - 8, Size(Uint64)) = Known(n)

\* C20: the code of 'assert e' ends the program with exit status 1 iff e
\* evaluates to false and otherwise continues with the next statement; a
\* program whose executed asserts all hold leaves through the epilogue with
\* status 0.  With x = 0 before the assert and x = x + 1 after it, the
\* program ends with status 0 and x = 1 when e holds and with status 1 and
\* x = 0 when it does not; and any program that exits does so with status 1
\* from the exit sequence of an assert whose expression was not 1, or with
\* status 0 from the epilogue.
C20_AssertExitsIffFalse ==
    (pc = "done" /\ status = "exited") =>
        /\ \A text \in {"true", "=="} : RunsAssertProgram(text) => EndsWithX(1)
        /\ \A text \in {"false", "!="} : RunsAssertProgram(text) => FailsWithX(0)
        /\ \/ /\ ip = Len(Code)
              /\ rdi = Known(0)
           \/ /\ ip < Len(Code)
              /\ rdi = Known(1)
              /\ Code[ip + 1].op = "label"
              /\ flags.a.known => flags.a.v # 1

\* C20 witness: the program with the assert x != 0 has ended with status 1
\* before the statement after the assert ran
C20_Witness ==
    /\ pc = "done"
    /\ status = "exited"
    /\ RunsAssertProgram("!=")
    /\ FailsWithX(0)

(***************************************************************************)
(* Claims about the emitted program (Spec).                                *)
(***************************************************************************)
JumpOps == {"jmp", "je", "jne"}
\* the labels NextLabel has returned, in the order of the calls: each one
\* is written as the operand of a jump before the next call
LabelsReturned ==
    LET jumps == SelectSeq(Code, LAMBDA ins : ins.op \in JumpOps)
    IN  [k \in 1..Len(jumps) |-> jumps[k].arg]
\* the lines of the emitted program that define a label
DefinitionsOf(label) == {j \in 1..Len(Code) : Code[j].op = "label" /\ Code[j].arg = label}
RECURSIVE NumberOf(_)
\* the number a sequence of decimal digits writes
NumberOf(d) == IF d = <<>> THEN 0 ELSE 10 * NumberOf(SubSeq(d, 1, Len(d) - 1)) + d[Len(d)]

\* C21: every label NextLabel returns is '.L' followed by at least two
\* digits, writes a larger number than every label returned before, and so
\* differs from all of them; in the emitted program every label returned
\* is defined exactly once, every defined label was returned, and every
\* jump targets a defined label, for ifs and asserts nested in ifs.
C21_LabelsUniqueAndDefined ==
    pc \in {"codegen", "done"} =>
        LET returned == LabelsReturned
        IN  /\ Len(returned) = LabelCount
            /\ \A k \in 1..Len(returned) :
                   /\ returned[k].prefix = ".L"
                   /\ Len(returned[k].digits) >= 2
                   /\ \A d \in 1..Len(returned[k].digits) : returned[k].digits[d] \in 0..9
                   /\ \A j \in 1..(k - 1) :
                          /\ NumberOf(returned[j].digits) < NumberOf(returned[k].digits)
                          /\ returned[j] # returned[k]
                   /\ Cardinality(DefinitionsOf(returned[k])) = 1
            /\ \A j \in 1..Len(Code) :
                   /\ Code[j].op = "label" => \E k \in 1..Len(returned) : returned[k] = Code[j].arg
                   /\ Code[j].op \in JumpOps => DefinitionsOf(Code[j].arg) # {}

\* C21 witness: the program of an if whose branches are both a block of an
\* if-else and an assert has been emitted and has run to its exit: eight
\* labels were returned
C21_Witness ==
    /\ pc = "done"
    /\ status = "exited"
    /\ Len(Stmts) = 2
    /\ Stmts[2].kind = "If"
    /\ Stmts[2].Stmt.kind = "Block"
    /\ Stmts[2].ElseStmt.kind = "Block"
    /\ LabelCount = 8
    /\ Len(LabelsReturned) = 8

(***************************************************************************)
(* Claims about error recovery in the parser (SpecParse).                  *)
(***************************************************************************)
Sentinels == {"SEMI", "CLOSE_CURLY", "EOF"}
\* the cursor just after the first ';', '}' or EOF at or after cursor i
AfterSentinel(toks, i) ==
    1 + CHOOSE j \in i..(Len(toks) - 1) :
            /\ TypeAt(toks, j) \in Sentinels
            /\ \A k \in i..(j - 1) : TypeAt(toks, k) \notin Sentinels

\* C22: when a top-level statement fails to parse and synchronize is called
\* with the cursor on a token, synchronize leaves the cursor just after
\* the first ';', '}' or EOF at or after that token: everything before the
\* sentinel is discarded, the sentinel is consumed, and nothing after it.
C22_SynchronizeStopsAfterSentinel ==
    [][\A r \in {parseStatement(tokens, idx, ParserErrors, failures)} :
           (pstate = "parsing" /\ MoreStatements /\ r.st = "err" /\ InRange(tokens, r.idx))
               => idx' = AfterSentinel(tokens, r.idx)]_vars

\* C23: for a block that holds one statement that fails to parse (ended by
\* its ';'), Parse returns with the block as the first statement, closed
\* at its own '}' and holding the good statements before and after the
\* bad one, and with the tokens after the '}' parsed as the next statement
\* of the enclosing scope.
C23_RecoveryStaysInBlock ==
    \A in \in RecoveryInputs :
        (tokens = RecoveryTokens(in) \o <<EOFToken>> /\ pstate # "parsing") =>
            /\ pstate = "returned"
            /\ ParserErrors # <<>>
            /\ Len(Stmts) = 1 + Len(in.after) \div Len(OneStatement)
            /\ Stmts[1].kind = "Block"
            /\ Len(Stmts[1].Statements) = (Len(in.pre) + Len(in.post)) \div Len(OneStatement)
            /\ \A k \in 2..Len(Stmts) : Stmts[k].kind = "ExprStmt"

\* C24: for every token sequence that ends with one EOF, every read of
\* p.tokens[p.idx] by peek, match, matchAny, isAtEnd and consume has
\* 0 <= idx < len(tokens): Parse never reaches the state where a read was
\* made outside the slice (the index-out-of-range panic, where idx is the
\* index read).
C24_ReadsInRange == pstate = "panicked" => InRange(tokens, idx)

(***************************************************************************)
(* Claims about addresses and the stack of the emitted program (Spec).     *)
(***************************************************************************)
\* C25: the analysis of an expression statement '&(e)' returns: with nil
\* and the type Ptr(type of e) when e is a declared identifier, with an
\* error when e is a literal; it never ends in the stack overflow of a
\* call that does not return.
C25_GroupAddressabilityDelegates ==
    \A k \in 1..Len(verdicts) :
        LET s == Stmts[k]
        IN  (s.kind = "ExprStmt" /\ s.Expr.kind = "Reference" /\ s.Expr.Right.kind = "Group") =>
                LET inner == s.Expr.Right.Expr
                IN  /\ verdicts[k] # "crash"
                    /\ inner.kind = "Literal" => verdicts[k] = "err"
                    /\ (/\ inner.kind = "Ident"
                        /\ \E j \in 1..(k - 1) :
                               Stmts[j].kind = "VarDecl" /\ Stmts[j].Ident = inner.Ident) =>
                           /\ verdicts[k] = "ok"
                           /\ s.Expr.Type = Ptr(inner.Type)

RECURSIVE LinesUpTo(_)
\* the number of lines of the emitted program up to the end of the code of
\* the k-th top-level statement (the number of lines does not depend on the
\* labels)
LinesUpTo(k) ==
    IF k = 0 THEN Len(NewEmitter) ELSE LinesUpTo(k - 1) + Len(EmitCode(Stmts[k], 0).code)
RECURSIVE DeclaredBefore(_)
\* the bytes the declarations before the k-th top-level statement allocate
DeclaredBefore(k) ==
    IF k <= 1 THEN 0 ELSE DeclaredBefore(k - 1) + Size(Stmts[k - 1].VarType)

\* C26: in the run of a program that passed semantic analysis, when a
\* top-level block that follows only declarations has just executed its
\* 'add rsp, BlockSize', rsp is what it was at the entry of the block: the
\* rsp of _start less the bytes of the declarations before the block.
C26_BlockRestoresRsp ==
    (pc = "done" /\ status = "running") =>
        \A k \in 1..Len(Stmts) :
            (/\ Stmts[k].kind = "Block"
             /\ \A j \in 1..(k - 1) : Stmts[j].kind = "VarDecl"
             /\ ip = LinesUpTo(k) + 1) => rsp = EntryRsp - DeclaredBefore(k)

\* the k-th top-level statement is an expression statement or an
\* assignment that follows only declarations
BalancedStatement(k) ==
    /\ Stmts[k].kind \in {"ExprStmt", "VarDefinition"}
    /\ \A j \in 1..(k - 1) : Stmts[j].kind = "VarDecl"

\* C27: in the run of a program that passed semantic analysis, every
\* 'pop rbx' takes the value of the last push not yet popped and puts rsp
\* back where it was before that push, so that the right operand of a
\* binary expression is in rbx after the left operand is evaluated; and
\* when the code of an expression statement or of an assignment has run,
\* no push is left unpopped and rsp is what it was before the statement.
C27_PushesAndPopsBalance ==
    [][(pc = "done" /\ status = "running" /\ status' = "running") =>
           /\ Code[ip].op = "pop rbx" =>
                  /\ pushes # <<>>
                  /\ rbx' = pushes[Len(pushes)].val
                  /\ rsp' = pushes[Len(pushes)].rsp
           /\ \A k \in 1..Len(Stmts) :
                  (BalancedStatement(k) /\ ip' = LinesUpTo(k) + 1) =>
                      /\ pushes' = <<>>
                      /\ rsp' = EntryRsp - DeclaredBefore(k)]_vars

\* C27 witness: the program of an assignment whose right side nests binary
\* expressions on both sides has run to its exit with x assigned and
\* nothing left pushed
C27_Witness ==
    /\ pc = "done"
    /\ status = "exited"
    /\ Len(Stmts) = 2
    /\ Stmts[2].kind = "VarDefinition"
    /\ Stmts[2].Right.kind = "Binary"
    /\ Stmts[2].Right.Left.kind = "Group"
    /\ Stmts[2].Right.Right.kind = "Group"
    /\ Stmts[2].Right.Right.Expr.Right.kind = "Group"
    /\ pushes = <<>>
    /\ rsp = EntryRsp - Size(Uint64)

(***************************************************************************)
(* Claims about the values the emitted code computes (Spec).               *)
(***************************************************************************)
\* the expression a statement evaluates first, if it has one
Evaluated(stmt) ==
    CASE stmt.kind \in {"ExprStmt", "Assert"} -> stmt.Expr
      [] stmt.kind = "VarDecl" -> stmt.Value
      [] OTHER -> NoExpr
\* the k-th top-level statement evaluates an expression of a one-byte or
\* two-byte type and follows only declarations, and the code of the
\* expression has just run
NarrowResultReady(k) ==
    /\ Evaluated(Stmts[k]).kind # "None"
    /\ Evaluated(Stmts[k]).Type.k \in {"BOOL", "UINT8", "UINT16"}
    /\ \A j \in 1..(k - 1) : Stmts[j].kind = "VarDecl"
    /\ ip = LinesUpTo(k - 1) + Len(EmitExpr(Evaluated(Stmts[k])).code) + 1

\* C28: in the run of a program that passed semantic analysis, when the
\* code of an expression of a one-byte or two-byte type (Bool, uint8,
\* uint16) has run, the bits of rax above the width of the type are zero:
\* rax is less than 256 to the power of the size of the type.
C28_UpperBitsZero ==
    (pc = "done" /\ status = "running") =>
        \A k \in 1..Len(Stmts) :
            (NarrowResultReady(k) /\ rax.known) =>
                rax.v < 256 ^ Size(Evaluated(Stmts[k]).Type)

\* a < b for two 64-bit values as unsigned integers, each given as the
\* two's complement number the model tracks
UnsignedLess(a, b) == IF (a < 0) = (b < 0) THEN a < b ELSE b < 0
\* the relation op between a and b as unsigned integers
UnsignedHolds(op, a, b) ==
    CASE op = "<" -> UnsignedLess(a, b)
      [] op = "<=" -> a = b \/ UnsignedLess(a, b)
      [] op = ">" -> UnsignedLess(b, a)
      [] op = ">=" -> a = b \/ UnsignedLess(b, a)
\* the program is 'uint64 x = a; uint64 y = b; assert x op y;' and the code
\* of 'x op y' has just run
ComparisonDone ==
    /\ pc = "done"
    /\ status = "running"
    /\ Len(Stmts) = 3
    /\ Stmts[3].kind = "Assert"
    /\ Stmts[3].Expr.kind = "Binary"
    /\ Stmts[3].Expr.Op \in OrderOps
    /\ ip = LinesUpTo(2) + Len(EmitExpr(Stmts[3].Expr).code) + 1
\* the value a variable holds in the run
Held(ident) == Read(mem, rbp.v - ident.Symbol.Offset, Size(ident.Type))

\* C29: for uint64 x and y holding any of the sample values, those with
\* the most significant bit set too, when the code of 'x op y' has run for
\* op one of <, <=, >, >=, al is 1 exactly when the relation holds between
\* the values of x and y as unsigned integers.
C29_UnsignedOrder ==
    ComparisonDone =>
        LET cmp == Stmts[3].Expr
            a == Held(cmp.Left)
            b == Held(cmp.Right)
        IN  /\ a.known /\ b.known /\ rax.known
            /\ (Low(rax, Size(Bool)).v = 1) <=> UnsignedHolds(cmp.Op, a.v, b.v)

(***************************************************************************)
(* SpecLex: Lexer.Lex on an input string, one iteration of its loop at a   *)
(* time.  A string is a sequence of characters; the buffer of the lexer    *)
(* and the value of a token are sequences of characters too.               *)
(***************************************************************************)
\* number of characters of an input of SpecLex
MaxChars == 3

\* the rune 0 that peek returns at the end of the input
NUL == ""
\* unicode.IsSpace, unicode.IsDigit and unicode.IsLetter on ASCII
IsSpace(c) == c \in {" ", "\t", "\n", "\r", "\f"}
IsDigit(c) == c \in {"0", "1", "2", "3", "4", "5", "6", "7", "8", "9"}
IsLetter(c) ==
    c \in {"a", "b", "c", "d", "e", "f", "g", "h", "i", "j", "k", "l", "m", "n", "o", "p",
           "q", "r", "s", "t", "u", "v", "w", "x", "y", "z", "A", "B", "C", "D", "E", "F",
           "G", "H", "I", "J", "K", "L", "M", "N", "O", "P", "Q", "R", "S", "T", "U", "V",
           "W", "X", "Y", "Z"}

\* NewToken
NewToken(tokenType, value, line, col) ==
    [Type |-> tokenType, Value |-> value, Line |-> line, Col |-> col]

\* NewLexer
NewLexer(input) ==
    [Tokens |-> <<>>, Errors |-> <<>>, input |-> input, line |-> 1, col |-> 1, idx |-> 0,
     buffer |-> <<>>]

\* Lexer.peek
peek(l) == IF l.idx = Len(l.input) THEN NUL ELSE l.input[l.idx + 1]

\* Lexer.consume
consume(l) ==
    [l EXCEPT !.buffer = Append(@, l.input[l.idx + 1]), !.col = @ + 1, !.idx = @ + 1]

\* Lexer.emitToken
emitToken(l, tokenType, startCol) ==
    [l EXCEPT !.Tokens = Append(@, NewToken(tokenType, l.buffer, l.line, startCol)),
              !.buffer = <<>>]

\* Lexer.isKeyword, the cases of the switch
Keywords ==
    {[word |-> <<"i", "f">>, type |-> "IF"],
     [word |-> <<"e", "l", "s", "e">>, type |-> "ELSE"],
     [word |-> <<"w", "h", "i", "l", "e">>, type |-> "WHILE"],
     [word |-> <<"f", "o", "r">>, type |-> "FOR"],
     [word |-> <<"u", "i", "n", "t", "6", "4">>, type |-> "UINT_64"],
     [word |-> <<"u", "i", "n", "t", "3", "2">>, type |-> "UINT_32"],
     [word |-> <<"u", "i", "n", "t", "1", "6">>, type |-> "UINT_16"],
     [word |-> <<"u", "i", "n", "t", "8">>, type |-> "UINT_8"],
     [word |-> <<"b", "o", "o", "l">>, type |-> "BOOL"],
     [word |-> <<"t", "r", "u", "e">>, type |-> "TRUE_LIT"],
     [word |-> <<"f", "a", "l", "s", "e">>, type |-> "FALSE_LIT"],
     [word |-> <<"a", "s", "s", "e", "r", "t">>, type |-> "ASSERT"]}

\* Lexer.isKeyword together with the emitToken(IDENT) of its caller
emitWord(l, startCol) ==
    LET hit == {kw \in Keywords : kw.word = l.buffer}
    IN  IF hit # {} THEN emitToken(l, (CHOOSE kw \in hit : TRUE).type, startCol)
        ELSE emitToken(l, "IDENT", startCol)

\* the characters that are a token by themselves
SingleChars ==
    {[char |-> ";", type |-> "SEMI"], [char |-> "(", type |-> "OPEN_PAREN"],
     [char |-> ")", type |-> "CLOSE_PAREN"], [char |-> "{", type |-> "OPEN_CURLY"],
     [char |-> "}", type |-> "CLOSE_CURLY"], [char |-> "+", type |-> "PLUS"],
     [char |-> "-", type |-> "MINUS"], [char |-> "*", type |-> "STAR"],
     [char |-> "/", type |-> "F_SLASH"]}

RECURSIVE ConsumeDigits(_)
\* for l.idx < len(l.input) && unicode.IsDigit(l.peek()) { l.consume() }
ConsumeDigits(l) ==
    IF l.idx < Len(l.input) /\ IsDigit(peek(l)) THEN ConsumeDigits(consume(l)) ELSE l

RECURSIVE ConsumeWord(_)
\* for l.idx < len(l.input) && (a letter, a digit or '_') { l.consume() }
ConsumeWord(l) ==
    IF /\ l.idx < Len(l.input)
       /\ (IsLetter(peek(l)) \/ IsDigit(peek(l)) \/ peek(l) = "_")
    THEN ConsumeWord(consume(l))
    ELSE l

\* Lexer.Lex, the body of the loop: the branch of the character under the
\* cursor; a character that no branch tests for leaves the lexer as it is
LexBody(l) ==
    LET c == peek(l)
        single == {sc \in SingleChars : sc.char = c}
        one == consume(l)
    IN  IF c = "\n" THEN [l EXCEPT !.line = @ + 1, !.col = 1, !.idx = @ + 1]
        ELSE IF IsSpace(c) THEN [l EXCEPT !.col = @ + 1, !.idx = @ + 1]
        ELSE IF single # {}
        THEN emitToken(one, (CHOOSE sc \in single : TRUE).type, one.col - 1)
        ELSE IF c = "="
        THEN IF peek(one) = "="
             THEN emitToken(consume(one), "EQ", consume(one).col - 2)
             ELSE emitToken(one, "ASSIGN", one.col - 1)
        ELSE IF c = "!"
        THEN IF peek(one) = "="
             THEN emitToken(consume(one), "NEQ", consume(one).col - 2)
             ELSE emitToken(one, "NOT", one.col - 1)
        ELSE IF c = "<"
        THEN IF peek(one) = "="
             THEN emitToken(one, "LESS_EQ_THAN", one.col - 2)
             ELSE emitToken(one, "LESS_THAN", one.col - 1)
        ELSE IF c = ">"
        THEN IF peek(one) = "="
             THEN emitToken(one, "GREATER_EQ_THAN", one.col - 2)
             ELSE emitToken(one, "GREATER_THAN", one.col - 1)
        ELSE IF IsDigit(c)
        THEN emitToken(ConsumeDigits(one), "UINT_64_LIT", l.col)
        ELSE IF IsLetter(c) \/ c = "_"
        THEN emitWord(ConsumeWord(one), l.col)
        ELSE l

\* the characters of the inputs: a token by itself, the start of a
\* two-character token, a digit, letters, an underscore, spaces, and two
\* characters that no branch of Lex tests for
InputChars == {";", "=", "<", "1", "i", "f", " ", "\n", "@", "&"}
Inputs == UNION {[1..n -> InputChars] : n \in 0..MaxChars}

\* lexer.NewLexer(string(input)) and the call of Lex
InitLex ==
    /\ \E input \in Inputs : lexer = NewLexer(input)
    /\ lexState = "lexing"
    /\ lexRet = "none"
    /\ typeCall = [op |-> "none"]
    /\ Stmts = <<>>
    /\ NoChecker /\ NoHistory /\ NoParser /\ NoDriver /\ NoEmitter /\ NoMachine

restOfLex ==
    <<checkerVars, historyVars, parserVars, Stmts, driverVars, emitterVars, machineVars,
      typeVars>>

\* one iteration of the loop of Lex.  An iteration that leaves the lexer as
\* it is finds the loop condition true again and is followed by the same
\* iteration for ever: Lex does not return.
LexIteration ==
    /\ lexState = "lexing"
    /\ lexer.idx < Len(lexer.input)
    /\ \E l \in {LexBody(lexer)} :
           /\ lexer' = l
           /\ lexState' = IF l = lexer THEN "diverged" ELSE lexState
    /\ UNCHANGED <<lexRet, restOfLex>>

\* the loop is over: the EOF token, and the last error or nil
LexReturn ==
    /\ lexState = "lexing"
    /\ lexer.idx >= Len(lexer.input)
    /\ lexer' = emitToken(lexer, "EOF", 0)
    /\ lexState' = "returned"
    /\ lexRet' = IF Len(lexer.Errors) # 0 THEN "error" ELSE "nil"
    /\ UNCHANGED restOfLex

NextLex ==
    \/ LexIteration
    \/ LexReturn

SpecLex == InitLex /\ [][NextLex]_vars

(***************************************************************************)
(* Claims about the lexer (SpecLex).                                       *)
(***************************************************************************)
\* a character that is neither a space nor the start of a token
StartsNoToken(c) ==
    /\ ~IsSpace(c)
    /\ ~IsDigit(c)
    /\ ~IsLetter(c)
    /\ c \notin {";", "(", ")", "{", "}", "=", "!", "<", ">", "+", "-", "*", "/", "_"}

\* C30: Lex never enters a loop it does not leave; and when it has
\* returned, the last token is EOF, and for an input with a character that
\* starts no token Errors is not empty and the value returned is an error.
C30_LexTerminatesAndRecordsUnknown ==
    /\ lexState # "diverged"
    /\ lexState = "returned" =>
           /\ lexer.Tokens # <<>>
           /\ lexer.Tokens[Len(lexer.Tokens)].Type = "EOF"
           /\ (\E k \in 1..Len(lexer.input) : StartsNoToken(lexer.input[k])) =>
                  (lexer.Errors # <<>> /\ lexRet = "error")

====
